---------------------------- MODULE Spec2Model ----------------------------
(***************************************************************************)
(* A model of the MPCL compiler's SSA generator, variable sets, compiler   *)
(* parameters, constant definition / instruction lowering order and the    *)
(* native circuit builtin.                                                  *)
(***************************************************************************)
EXTENDS Integers, Naturals, Sequences, FiniteSets, TLC

(***************************************************************************)
(* Bounds of the model.                                                     *)
(***************************************************************************)
\* Longest sequence of Generator calls explored.
MaxCalls == 4

\* Most sinks opened into a Params in one run.
MaxSinks == 5

\* Most instructions (prog.Steps) in a compiled program.
MaxSteps == 2

\* Most arguments after the circuit name in a call to native.
MaxArgs == 2

\* Most inputs of a native circuit.
MaxInputs == 2

\* Widest operand of a lowered or folded slice, and largest slice bound.
MaxBits == 3

\* Most gate lines of a circuit file.
MaxGates == 2

\* Gates of a nested circuit, and its intermediate wires.
MaxNested == 2

MaxInter == 2

\* Most l-values, and most right-hand sides, of an assignment.
MaxLValues == 2

\* Most wires of the circuit a player garbles.
MaxWires == 70

\* Largest magnitude of the big integers given to mpa.Int, and largest shift.
MaxMag == 5

MaxShift == 2

\* Bits the big-integer operators work on; wider than every value reached.
BigWidth == 12

(***************************************************************************)
(* State.                                                                   *)
(***************************************************************************)
VARIABLES
    versions,   \* Generator.versions: key string -> latest Variable
    constants,  \* Generator.constants: constant name -> Variable
    calls,      \* the calls made on the Generator so far, with what each returned
    heap,       \* the allocated Set maps: object -> (VariableID -> Variable)
    hnd,        \* the program's Set-typed variables: handle -> object, 0 when unset
    setLog,     \* the last Set operations, each with the contents it started from
    copies,     \* the pairs <<original, copy>> of handles related by Copy
    params,     \* Params: sink field -> the sink it holds, 0 for nil
    closed,     \* how many times each sink opened so far has been closed
    paramsLast, \* the last operation on the Params
    prog,       \* the Program being compiled: its Constants map and its Steps
    runs,       \* two compilations of prog: each one's compiler and wire state
    block,      \* the instructions of the ssa.Block a native call adds to
    nat,        \* the call to native made on the block and how it ended
    low,        \* the one-instruction program lowered by Program.Circuit and its outcome
    ev,         \* the expression node folded by Eval and what Eval returned
    parse,      \* the circuit file given to circuit.Parse and what Parse returned
    mp,         \* the mpa.Int operation performed, its operands and its result
    pipe,       \* a call of CompileCircuit: its parameters, position, calls made and result
    off         \* a call of Player.offlinePhase: the circuit size and how choosing lambda ended

genVars == <<versions, constants, calls>>

setVars == <<heap, hnd, setLog, copies>>

paramsVars == <<params, closed, paramsLast>>

compVars == <<prog, runs>>

nativeVars == <<block, nat>>

vars == <<versions, constants, calls, heap, hnd, setLog, copies,
          params, closed, paramsLast, prog, runs, block, nat, low, ev, parse, mp, pipe, off>>

mpVars == <<mp>>

pipeVars == <<pipe>>

offVars == <<off>>

parseVars == <<parse>>

lowVars == <<low>>

evVars == <<ev>>

(***************************************************************************)
(* Maps (Go map[K]V) are functions whose domain is the set of keys present. *)
(***************************************************************************)
EmptyMap == [k \in {} |-> k]

MapPut(m, k, v) == [x \in (DOMAIN m) \cup {k} |-> IF x = k THEN v ELSE m[x]]

MapDelete(m, k) == [x \in (DOMAIN m) \ {k} |-> m[x]]

(***************************************************************************)
(* ssa.Generator                                                            *)
(***************************************************************************)
\* const anon = "%_"
anon == "%_"

\* types.Info values handed to the generator.
UndefinedInfo == [Type |-> "Undefined", Bits |-> 0]

GenTypes == {[Type |-> "Int", Bits |-> 8], [Type |-> "Bool", Bits |-> 1]}

\* Variable names of the compiled program: identifiers, never the reserved
\* anonymous name.
GenNames == {"a", "b"}

GenScopes == {0, 1}

\* Constants offered to AddConstant: two names, two different variables each.
GenConsts ==
    { [Name |-> n, Scope |-> 0, Version |-> 0, Type |-> t,
       Const |-> TRUE, ConstValue |-> n] :
        n \in {"$1", "$2"}, t \in GenTypes }

\* The zero Variable{Name: name, Scope: scope, Type: t}.
MkVariable(name, scope, t) ==
    [Name |-> name, Scope |-> scope, Version |-> 0, Type |-> t]

\* A key that forgets the scope.
fmtKeyNameOnly(name, scope) == name

\* fmt.Sprintf("%s@%d", name, scope)
fmtKey(name, scope) == name \o "@" \o ToString(scope)

\* A version that is never advanced.
NextVersionStuck(v) == v

\* v.Version = v.Version + 1
NextVersion(v) == [v EXCEPT !.Version = v.Version + 1]

\* An UndefVar that returns one canonical variable.
UndefVarRetCanonical(vs) == MkVariable(anon, 0, UndefinedInfo)

\* The variable UndefVar stores under the anon key and returns.
UndefVarRet(vs) ==
    LET v == IF anon \in DOMAIN vs
             THEN NextVersion(vs[anon])
             ELSE MkVariable(anon, 0, UndefinedInfo)
    IN  [v EXCEPT !.Type = UndefinedInfo]

\* The variable AnonVar stores under the anon key and returns.
AnonVarRet(vs, t) ==
    LET v == IF anon \in DOMAIN vs
             THEN NextVersion(vs[anon])
             ELSE MkVariable(anon, 0, t)
    IN  [v EXCEPT !.Type = t]

\* The variable NewVar stores under fmtKey(name, scope) and returns.
NewVarRet(vs, name, t, scope) ==
    LET key == fmtKey(name, scope)
    IN  IF key \in DOMAIN vs
        THEN NextVersion(vs[key])
        ELSE MkVariable(name, scope, t)

\* An AddConstant that overwrites the entry of the name.
AddConstantOverwrite(pool, c) == MapPut(pool, c.Name, c)

\* The constant pool after AddConstant(c).
AddConstantPool(pool, c) ==
    IF c.Name \in DOMAIN pool THEN pool ELSE MapPut(pool, c.Name, c)

GenInit ==
    /\ versions = EmptyMap
    /\ constants = EmptyMap
    /\ calls = << >>

UndefVar ==
    /\ Len(calls) < MaxCalls
    /\ LET v == UndefVarRet(versions)
       IN  /\ versions' = MapPut(versions, anon, v)
           /\ calls' = Append(calls, [op |-> "UndefVar", ret |-> v])
    /\ UNCHANGED <<constants, setVars, paramsVars, compVars, nativeVars, lowVars, evVars, parseVars, mpVars, pipeVars, offVars>>

AnonVar ==
    /\ Len(calls) < MaxCalls
    /\ \E t \in GenTypes :
         LET v == AnonVarRet(versions, t)
         IN  /\ versions' = MapPut(versions, anon, v)
             /\ calls' = Append(calls, [op |-> "AnonVar", ret |-> v])
    /\ UNCHANGED <<constants, setVars, paramsVars, compVars, nativeVars, lowVars, evVars, parseVars, mpVars, pipeVars, offVars>>

NewVar ==
    /\ Len(calls) < MaxCalls
    /\ \E name \in GenNames, t \in GenTypes, scope \in GenScopes :
         LET v == NewVarRet(versions, name, t, scope)
         IN  /\ versions' = MapPut(versions, fmtKey(name, scope), v)
             /\ calls' = Append(calls, [op |-> "NewVar", name |-> name,
                                        scope |-> scope, ret |-> v])
    /\ UNCHANGED <<constants, setVars, paramsVars, compVars, nativeVars, lowVars, evVars, parseVars, mpVars, pipeVars, offVars>>

AddConstant ==
    /\ Len(calls) < MaxCalls
    /\ \E c \in GenConsts :
         /\ constants' = AddConstantPool(constants, c)
         /\ calls' = Append(calls, [op |-> "AddConstant", arg |-> c])
    /\ UNCHANGED <<versions, setVars, paramsVars, compVars, nativeVars, lowVars, evVars, parseVars, mpVars, pipeVars, offVars>>

GenNext == UndefVar \/ AnonVar \/ NewVar \/ AddConstant


(***************************************************************************)
(* ssa.Set: map[VariableID]Variable.  A Go map is a reference: the program  *)
(* holds handles to map objects, and two handles may name the same object   *)
(* (as the receiver and the argument of A.Subtract(A) do).                  *)
(***************************************************************************)
\* Variables put into sets: two different variables share ID 1.
SetVariables ==
    {[ID |-> 1, Name |-> "x"], [ID |-> 1, Name |-> "y"], [ID |-> 2, Name |-> "z"]}

Handles == {"A", "B"}

\* All orders in which a range loop may visit the keys S.
Orders(S) ==
    {q \in [1..Cardinality(S) -> S] : \A i, j \in DOMAIN q : i # j => q[i] # q[j]}

\* An Add that keeps the entry an ID already has.
SetAddIfAbsent(set, val) ==
    IF val.ID \in DOMAIN set THEN set ELSE MapPut(set, val.ID, val)

\* set[val.ID] = val
SetAdd(set, val) == MapPut(set, val.ID, val)

\* A Remove that deletes only the very variable given.
SetRemoveIfSame(set, val) ==
    IF val.ID \in DOMAIN set /\ set[val.ID] = val
    THEN MapDelete(set, val.ID) ELSE set

\* delete(set, val.ID)
SetRemove(set, val) == MapDelete(set, val.ID)

\* A Copy that hands back the receiver's own map.
SetCopyAlias(hp, obj, fresh) == [obj |-> obj, heap |-> hp]

\* Copy: a new map, filled with every entry of the receiver.
SetCopy(hp, obj, fresh) ==
    [obj |-> fresh,
     heap |-> MapPut(hp, fresh, [k \in DOMAIN hp[obj] |-> hp[obj][k]])]

\* Subtract: for _, v := range o { set.Remove(v) }, the keys of o being visited
\* in the given order.  An entry deleted before the loop reaches it is not
\* produced (set and o may be the same map).
RECURSIVE SetSubtract(_, _, _, _, _)
SetSubtract(hp, set, o, order, i) ==
    IF i > Len(order) THEN hp
    ELSE LET k == order[i]
             next == IF k \in DOMAIN hp[o]
                     THEN [hp EXCEPT ![set] = SetRemove(hp[set], hp[o][k])]
                     ELSE hp
         IN  SetSubtract(next, set, o, order, i + 1)

SetInit ==
    /\ heap = EmptyMap
    /\ hnd = [h \in Handles |-> 0]
    /\ setLog = << >>
    /\ copies = {}

\* What every handle's set holds (Unset for a handle not yet assigned).
Unset == [unset |-> TRUE]

Contents(hp, hd) == [h \in Handles |-> IF hd[h] = 0 THEN Unset ELSE hp[hd[h]]]

\* The log keeps the last operation with the contents it started from and,
\* when the operation before it was an Add, that one too.
Logged(r) ==
    LET full == [r EXCEPT !.pre = Contents(heap, hnd)]
    IN  IF setLog # << >> /\ setLog[Len(setLog)].op = "Add"
        THEN <<setLog[Len(setLog)], full>>
        ELSE <<full>>

\* The copy pairs that do not involve handle h.
Without(h) == {p \in copies : p[1] # h /\ p[2] # h}

\* A map no handle refers to any more is garbage.
Collect(hp, hd) == [x \in (DOMAIN hp) \cap {hd[h] : h \in Handles} |-> hp[x]]

\* The object a new map gets.
FreshObj ==
    CHOOSE x \in 1..(Cardinality(Handles) + 1) :
        /\ x \notin DOMAIN heap
        /\ \A y \in 1..(x - 1) : y \in DOMAIN heap

\* h = NewSet()
NewSet ==
    /\ \E h \in Handles :
         LET hd == [hnd EXCEPT ![h] = FreshObj]
         IN  /\ heap' = Collect(MapPut(heap, FreshObj, EmptyMap), hd)
             /\ hnd' = hd
             /\ setLog' = Logged([op |-> "NewSet", h |-> h, pre |-> 0])
             /\ copies' = Without(h)
    /\ UNCHANGED <<genVars, paramsVars, compVars, nativeVars, lowVars, evVars, parseVars, mpVars, pipeVars, offVars>>

\* h.Add(v)
SetAddCall ==
    /\ \E h \in Handles, v \in SetVariables :
         /\ hnd[h] # 0
         /\ heap' = [heap EXCEPT ![hnd[h]] = SetAdd(heap[hnd[h]], v)]
         /\ setLog' = Logged([op |-> "Add", h |-> h, v |-> v, pre |-> 0])
    /\ UNCHANGED <<hnd, copies, genVars, paramsVars, compVars, nativeVars, lowVars, evVars, parseVars, mpVars, pipeVars, offVars>>

\* h.Remove(v)
SetRemoveCall ==
    /\ \E h \in Handles, v \in SetVariables :
         /\ hnd[h] # 0
         /\ heap' = [heap EXCEPT ![hnd[h]] = SetRemove(heap[hnd[h]], v)]
         /\ setLog' = Logged([op |-> "Remove", h |-> h, v |-> v, pre |-> 0])
    /\ UNCHANGED <<hnd, copies, genVars, paramsVars, compVars, nativeVars, lowVars, evVars, parseVars, mpVars, pipeVars, offVars>>

\* o = h.Copy()
SetCopyCall ==
    /\ \E h \in Handles, o \in Handles :
         /\ h # o
         /\ hnd[h] # 0
         /\ LET r == SetCopy(heap, hnd[h], FreshObj)
                hd == [hnd EXCEPT ![o] = r.obj]
            IN  /\ heap' = Collect(r.heap, hd)
                /\ hnd' = hd
         /\ setLog' = Logged([op |-> "Copy", h |-> h, o |-> o, pre |-> 0])
         /\ copies' = Without(o) \cup {<<h, o>>}
    /\ UNCHANGED <<genVars, paramsVars, compVars, nativeVars, lowVars, evVars, parseVars, mpVars, pipeVars, offVars>>

\* h.Subtract(o); h and o may be the same handle.
SetSubtractCall ==
    /\ \E h \in Handles, o \in Handles :
         /\ hnd[h] # 0 /\ hnd[o] # 0
         /\ \E order \in Orders(DOMAIN heap[hnd[o]]) :
              heap' = SetSubtract(heap, hnd[h], hnd[o], order, 1)
         /\ setLog' = Logged([op |-> "Subtract", h |-> h, o |-> o, pre |-> 0])
    /\ UNCHANGED <<hnd, copies, genVars, paramsVars, compVars, nativeVars, lowVars, evVars, parseVars, mpVars, pipeVars, offVars>>

SetNext ==
    NewSet \/ SetAddCall \/ SetRemoveCall \/ SetCopyCall \/ SetSubtractCall


(***************************************************************************)
(* utils.Params: the four output sinks and Close.                           *)
(***************************************************************************)
\* The io.WriteCloser fields, in the order Close visits them.
SinkFields == <<"SSAOut", "SSADotOut", "CircOut", "CircDotOut">>

ParamsInit ==
    /\ params = [f \in {SinkFields[i] : i \in DOMAIN SinkFields} |-> 0]
    /\ closed = << >>
    /\ paramsLast = "NewParams"

\* A Close step that closes the sink but keeps the field.
CloseFieldKeep(st, f) ==
    IF st.p[f] # 0
    THEN [p |-> st.p, n |-> [st.n EXCEPT ![st.p[f]] = @ + 1]]
    ELSE st

\* if p.F != nil { p.F.Close(); p.F = nil }
CloseField(st, f) ==
    IF st.p[f] # 0
    THEN [p |-> [st.p EXCEPT ![f] = 0], n |-> [st.n EXCEPT ![st.p[f]] = @ + 1]]
    ELSE st

\* Params.Close: the four fields in turn.
RECURSIVE CloseFrom(_, _)
CloseFrom(st, i) ==
    IF i > Len(SinkFields) THEN st
    ELSE CloseFrom(CloseField(st, SinkFields[i]), i + 1)

\* The compiler opens an output into a field that holds none.
OpenSink ==
    /\ Len(closed) < MaxSinks
    /\ \E f \in DOMAIN params :
         /\ params[f] = 0
         /\ params' = [params EXCEPT ![f] = Len(closed) + 1]
         /\ closed' = Append(closed, 0)
    /\ paramsLast' = "Open"
    /\ UNCHANGED <<genVars, setVars, compVars, nativeVars, lowVars, evVars, parseVars, mpVars, pipeVars, offVars>>

\* p.Close()
ParamsClose ==
    /\ LET st == CloseFrom([p |-> params, n |-> closed], 1)
       IN  /\ params' = st.p
           /\ closed' = st.n
    /\ paramsLast' = "Close"
    /\ UNCHANGED <<genVars, setVars, compVars, nativeVars, lowVars, evVars, parseVars, mpVars, pipeVars, offVars>>

ParamsNext == OpenSink \/ ParamsClose


(***************************************************************************)
(* ssa.Program: DefineConstants and Circuit.  Names are byte strings, so    *)
(* that strings.Compare can order them.                                     *)
(***************************************************************************)
\* strings.Compare(a, b): -1, 0 or 1 by lexicographic byte order.
RECURSIVE Compare(_, _)
Compare(a, b) ==
    IF a = << >> /\ b = << >> THEN 0
    ELSE IF a = << >> THEN -1
    ELSE IF b = << >> THEN 1
    ELSE IF Head(a) < Head(b) THEN -1
    ELSE IF Head(a) > Head(b) THEN 1
    ELSE Compare(Tail(a), Tail(b))

\* The less function given to sort.Slice.
ConstLess(x, y) == Compare(x.Name, y.Name) = -1

\* sort.Slice on a short slice is an insertion sort: x moves left past every
\* element it is less than.
RECURSIVE InsertSorted(_, _)
InsertSorted(sorted, x) ==
    IF sorted # << >> /\ ConstLess(x, sorted[Len(sorted)])
    THEN Append(InsertSorted(SubSeq(sorted, 1, Len(sorted) - 1), x),
                sorted[Len(sorted)])
    ELSE Append(sorted, x)

RECURSIVE InsertionSort(_, _)
InsertionSort(consts, i) ==
    IF i = 0 THEN << >>
    ELSE InsertSorted(InsertionSort(consts, i - 1), consts[i])

\* Constants left in the order the map iteration produced them.
SortSliceSkipped(consts) == consts

\* sort.Slice(consts, less)
SortSlice(consts) == InsertionSort(consts, Len(consts))

\* The shared constant wires and the wires the allocator mints.
ZeroWire == [kind |-> "ZERO", id |-> 0]

OneWire == [kind |-> "ONE", id |-> 0]

Wire(n) == [kind |-> "wire", id |-> n]

\* Variable.String(): the name a variable's wires are bound under.
VarString(v) == v.Name

\* Variable.Bit(bit): bit `bit` of the constant's value.
VarBit(c, bit) == (c.ConstValue \div (2 ^ bit)) % 2 = 1

\* The wires DefineConstants makes for constant c: MinBits of them.
ConstWires(c) ==
    [bit \in 1..c.Type.MinBits |-> IF VarBit(c, bit - 1) THEN OneWire ELSE ZeroWire]

\* prog.SetWires(name, w): bind w to name.
SetWires(st, name, w) ==
    [st EXCEPT !.wires = MapPut(st.wires, name, w),
               !.trace = Append(st.trace, [ev |-> "bind", name |-> name, wires |-> w])]

\* prog.Wires(name, bits): the wires bound to name; unbound names get `bits`
\* newly allocated wires.  A width that is not set is an error.
Wires(st, name, bits) ==
    IF bits <= 0
    THEN [st |-> st, w |-> << >>, err |-> "size not set"]
    ELSE IF name \in DOMAIN st.wires
    THEN [st |-> st, w |-> st.wires[name], err |-> ""]
    ELSE LET w == [i \in 1..bits |-> Wire(st.nextWire + i - 1)]
         IN  [st |-> SetWires([st EXCEPT !.nextWire = st.nextWire + bits], name, w),
              w |-> w, err |-> ""]

\* DefineConstants from the loop over the sorted constants on.
RECURSIVE DefineFrom(_, _, _)
DefineFrom(st, consts, i) ==
    IF i > Len(consts) THEN st
    ELSE DefineFrom(SetWires(st, VarString(consts[i]), ConstWires(consts[i])),
                    consts, i + 1)

\* Program.DefineConstants, the map prog.Constants being iterated in `order`.
DefineConstantsRun(st, order) ==
    LET consts == [i \in DOMAIN order |-> prog.Constants[order[i]]]
    IN  DefineFrom(st, SortSlice(consts), 1)

\* The loop resolving instr.In to wires, which ends at the first error.
RECURSIVE InputWires(_, _, _, _)
InputWires(st, ins, i, acc) ==
    IF i > Len(ins) THEN [st |-> st, wires |-> acc, err |-> ""]
    ELSE LET r == Wires(st, VarString(ins[i]), ins[i].Type.Bits)
         IN  IF r.err # "" THEN [st |-> r.st, wires |-> acc, err |-> r.err]
             ELSE InputWires(r.st, ins, i + 1, Append(acc, r.w))

\* case Mov: the input's wires, zero-padded to the output's width.
LowerMov(st, instr, wires) ==
    LET o == [bit \in 1..instr.Out.Type.Bits |->
                 IF bit <= Len(wires[1]) THEN wires[1][bit] ELSE ZeroWire]
    IN  SetWires(st, VarString(instr.Out), o)

\* cc.ID(w, o): an identity gate from w to o.
IDGate(w, o) == [op |-> "XOR", in0 |-> w, in1 |-> ZeroWire, out |-> o]

\* A compiler that marks no output wire: the second loop of case Ret left out.
MarkOutputsSkipped(st) == st

\* The loop setting o.Output = true for every wire of cc.OutputWires.
MarkOutputs(st) ==
    [st EXCEPT !.marked = @ \cup {st.outputs[k] : k \in DOMAIN st.outputs}]

\* case Ret: one new output wire and ID gate for every returned wire, then
\* every output wire is marked.
RECURSIVE LowerRet(_, _)
LowerRet(st, flat) ==
    IF flat = << >> THEN MarkOutputs(st)
    ELSE LET o == Wire(st.nextWire)
             g == IDGate(Head(flat), o)
         IN  LowerRet([st EXCEPT !.nextWire = st.nextWire + 1,
                                 !.gates = Append(st.gates, g),
                                 !.outputs = Append(st.outputs, o),
                                 !.trace = Append(st.trace, [ev |-> "gate", gate |-> g])],
                      Tail(flat))

RECURSIVE Flatten(_)
Flatten(groups) ==
    IF groups = << >> THEN << >> ELSE Head(groups) \o Flatten(Tail(groups))

\* The constant index operand i of a Slice instruction, or the error the
\* lowering returns for it.
SliceIndex(instr, i) ==
    IF ~instr.In[i].Const
    THEN [err |-> "only constant index supported", val |-> 0]
    ELSE IF instr.In[i].ConstKind # "int32"
    THEN [err |-> "unsupported index type", val |-> 0]
    ELSE [err |-> "", val |-> instr.In[i].ConstValue]

\* A nil *circuits.Wire, as make() leaves the elements of a new slice.
NilWire == [kind |-> "nil", id |-> 0]

\* case Slice: bits from..to-1 of the operand, zero wires beyond its width.
\* Indexing wires[0] with a negative bit, or o beyond its length, is a run-time
\* panic.
LowerSlice(st, instr, wires) ==
    LET f == SliceIndex(instr, 2)
        t == SliceIndex(instr, 3)
        from == f.val
        to == t.val
        n == instr.Out.Type.Bits
        o == [k \in 1..n |->
                 IF k > to - from THEN NilWire
                 ELSE IF from + k <= Len(wires[1]) THEN wires[1][from + k]
                 ELSE ZeroWire]
    IN  IF f.err # "" THEN [st EXCEPT !.err = f.err]
        ELSE IF t.err # "" THEN [st EXCEPT !.err = t.err]
        ELSE IF from >= to THEN [st EXCEPT !.err = "bounds out of range"]
        ELSE IF from < 0 \/ to - from > n THEN [st EXCEPT !.err = "panic"]
        ELSE SetWires(st, VarString(instr.Out), o)

\* A lowering that passes the argument wires on as they are.
CircInputWiresUnpadded(wires, inputs, idx) == Flatten(wires)

\* case Circ, "Flatten input wires": every argument's wires, followed by ZERO
\* wires up to the size of the nested circuit's input.
RECURSIVE CircInputWires(_, _, _)
CircInputWires(wires, inputs, idx) ==
    IF idx > Len(wires) THEN << >>
    ELSE LET w == wires[idx]
             zeroes == [i \in 1..(inputs[idx].Size - Len(w)) |-> ZeroWire]
         IN  w \o zeroes \o CircInputWires(wires, inputs, idx + 1)

\* circuits.NewBinary(op, a, b, o) and the gate cc.INV(i, o) adds.
NewBinary(op, a, b, o) == [op |-> op, in0 |-> a, in1 |-> b, out |-> o]

INVGate(i, o) == [op |-> "INV", in0 |-> i, in1 |-> NilWire, out |-> o]

\* cc.AddGate(g)
AddGate(st, g) ==
    [st EXCEPT !.gates = Append(st.gates, g),
               !.trace = Append(st.trace, [ev |-> "gate", gate |-> g])]

\* case Circ, "Add gates": the gates of the nested circuit from gate k on,
\* their wire indices looked up in circWires.  An index beyond circWires is a
\* run-time panic.
RECURSIVE AddCircGates(_, _, _, _)
AddCircGates(st, gates, circWires, k) ==
    IF k > Len(gates) THEN st
    ELSE LET gate == gates[k]
             n == Len(circWires)
         IN  IF gate.Op \in {"XOR", "XNOR", "AND", "OR"}
             THEN IF gate.Input0 >= n \/ gate.Input1 >= n \/ gate.Output >= n
                  THEN [st EXCEPT !.err = "panic"]
                  ELSE AddCircGates(
                          AddGate(st, NewBinary(gate.Op, circWires[gate.Input0 + 1],
                                                circWires[gate.Input1 + 1],
                                                circWires[gate.Output + 1])),
                          gates, circWires, k + 1)
             ELSE IF gate.Op = "INV"
             THEN IF gate.Input0 >= n \/ gate.Output >= n
                  THEN [st EXCEPT !.err = "panic"]
                  ELSE AddCircGates(
                          AddGate(st, INVGate(circWires[gate.Input0 + 1],
                                              circWires[gate.Output + 1])),
                          gates, circWires, k + 1)
             ELSE [st EXCEPT !.err = "Unknown gate"]

\* case Circ: the argument wires, new wires for the nested circuit's
\* intermediate wires, the result wires, then the nested gates.
LowerCirc(st, instr, wires) ==
    LET ins == CircInputWires(wires, instr.Circ.Inputs, 1)
        r == InputWires(st, instr.Ret, 1, << >>)
        circOut == Flatten(r.wires)
        nint == instr.Circ.NumWires - Len(ins) - Len(circOut)
        inter == [i \in 1..nint |-> Wire(r.st.nextWire + i - 1)]
        st1 == [r.st EXCEPT !.nextWire = @ + Len(inter)]
    IN  IF r.err # "" THEN [r.st EXCEPT !.err = r.err]
        ELSE AddCircGates(st1, instr.Circ.Gates, ins \o inter \o circOut, 1)

\* What a gate builder of package circuits (NewAdder, NewSubtractor,
\* NewBitSetTest, NewBitClrTest) does with the output wires o: it returns an
\* error, or it adds its gates, here one per output wire.  Which of the two
\* is given with the instruction.
RECURSIVE BuilderGates(_, _, _, _)
BuilderGates(st, name, a, o) ==
    IF o = << >> THEN st
    ELSE BuilderGates(AddGate(st, NewBinary(name, a, NilWire, Head(o))), name, a, Tail(o))

Builder(st, instr, name, a, o) ==
    IF instr.BuilderFails THEN [st EXCEPT !.err = "builder"]
    ELSE BuilderGates(st, name, a, o)

\* cases Iadd, Uadd, Isub, Usub: the output wires, then the builder.
LowerArith(st, instr, wires) ==
    LET o == Wires(st, VarString(instr.Out), instr.Out.Type.Bits)
    IN  IF o.err # "" THEN [o.st EXCEPT !.err = o.err]
        ELSE Builder(o.st, instr, instr.Op, wires[1][1], o.w)

\* cases Bts, Btc: the index must be an int32 constant; the error of
\* prog.Wires is overwritten by what the builder returns.
LowerBitTest(st, instr, wires) ==
    LET index == SliceIndex(instr, 2)
        o == Wires(st, VarString(instr.Out), instr.Out.Type.Bits)
    IN  IF index.err # "" THEN [st EXCEPT !.err = index.err]
        ELSE Builder(o.st, instr, instr.Op, wires[1][1], o.w)

\* The body of the loop over prog.Steps for one instruction.
LowerStep(st, instr) ==
    LET r == InputWires(st, instr.In, 1, << >>)
    IN  IF r.err # "" THEN [r.st EXCEPT !.err = r.err]
        ELSE CASE instr.Op = "Mov" -> LowerMov(r.st, instr, r.wires)
          [] instr.Op = "Ret" ->
                LowerRet([r.st EXCEPT !.returned = @ \o Flatten(r.wires)],
                         Flatten(r.wires))
          [] instr.Op = "GC"  -> r.st
          [] instr.Op = "Slice" -> LowerSlice(r.st, instr, r.wires)
          [] instr.Op = "Circ" -> LowerCirc(r.st, instr, r.wires)
          [] instr.Op \in {"Iadd", "Uadd", "Isub", "Usub"} -> LowerArith(r.st, instr, r.wires)
          [] instr.Op \in {"Bts", "Btc"} -> LowerBitTest(r.st, instr, r.wires)
          [] OTHER -> [r.st EXCEPT !.err = "not implemented yet"]

\* Program.Circuit: the steps in order, stopping at the first error.
RECURSIVE CircuitFrom(_, _, _)
CircuitFrom(st, steps, i) ==
    IF i > Len(steps) \/ st.err # "" THEN st
    ELSE CircuitFrom(
            LowerStep([st EXCEPT !.trace = Append(st.trace, [ev |-> "step", index |-> i])],
                      steps[i]),
            steps, i + 1)

\* The constants a program may hold: "1", "10" and "2" as byte strings.
ProgConsts ==
    { [Name |-> <<49>>,     Type |-> [Bits |-> 2, MinBits |-> 1], Const |-> TRUE, ConstValue |-> 1],
      [Name |-> <<49, 48>>, Type |-> [Bits |-> 2, MinBits |-> 2], Const |-> TRUE, ConstValue |-> 2],
      [Name |-> <<50>>,     Type |-> [Bits |-> 2, MinBits |-> 2], Const |-> TRUE, ConstValue |-> 3] }

ConstNamed(n) == CHOOSE c \in ProgConsts : c.Name = n

\* The variable x (byte string "x") of three bits.
VarX == [Name |-> <<120>>, Type |-> [Bits |-> 3, MinBits |-> 3], Const |-> FALSE, ConstValue |-> 0]

\* The instructions a program may hold.
ProgInstrs ==
    { [Op |-> "Mov", In |-> <<ConstNamed(<<49, 48>>)>>, Out |-> VarX],
      [Op |-> "Ret", In |-> <<VarX>>, Out |-> VarX],
      [Op |-> "Ret", In |-> <<ConstNamed(<<50>>), ConstNamed(<<49>>)>>, Out |-> VarX],
      [Op |-> "GC", In |-> << >>, Out |-> VarX] }

NoProgram == [Constants |-> EmptyMap, Steps |-> << >>, chosen |-> FALSE]

\* circuits.NewCompiler: no wires bound, no gates, no wire marked Output;
\* `returned` records the wires the Ret instructions were handed, in order.
NewRun ==
    [pc |-> "start", wires |-> EmptyMap, nextWire |-> 0, gates |-> << >>,
     outputs |-> << >>, marked |-> {}, returned |-> << >>,
     trace |-> << >>, err |-> "", order |-> << >>]

CompInit ==
    /\ prog = NoProgram
    /\ runs = [r \in {1, 2} |-> NewRun]

\* The program handed to CompileCircuit.
ChooseProgram ==
    /\ ~prog.chosen
    /\ \E cs \in SUBSET ProgConsts, n \in 0..MaxSteps :
         \E steps \in [1..n -> ProgInstrs] :
            prog' = [Constants |-> [k \in {c.Name : c \in cs} |-> ConstNamed(k)],
                     Steps |-> steps, chosen |-> TRUE]
    /\ UNCHANGED <<runs, genVars, setVars, paramsVars, nativeVars, lowVars, evVars, parseVars, mpVars, pipeVars, offVars>>

\* err = prog.DefineConstants(cc), in compilation r
DefineConstants(r) ==
    /\ prog.chosen
    /\ runs[r].pc = "start"
    /\ \E order \in Orders(DOMAIN prog.Constants) :
         runs' = [runs EXCEPT ![r] =
                     [DefineConstantsRun(runs[r], order) EXCEPT
                         !.pc = "defined", !.order = order]]
    /\ UNCHANGED <<prog, genVars, setVars, paramsVars, nativeVars, lowVars, evVars, parseVars, mpVars, pipeVars, offVars>>

\* err = prog.Circuit(cc), in compilation r
Circuit(r) ==
    /\ runs[r].pc = "defined"
    /\ runs' = [runs EXCEPT ![r] =
                   [CircuitFrom(runs[r], prog.Steps, 1) EXCEPT !.pc = "lowered"]]
    /\ UNCHANGED <<prog, genVars, setVars, paramsVars, nativeVars, lowVars, evVars, parseVars, mpVars, pipeVars, offVars>>

CompNext ==
    \/ ChooseProgram
    \/ \E r \in {1, 2} : DefineConstants(r)
    \/ \E r \in {1, 2} : Circuit(r)


(***************************************************************************)
(* Program.CompileCircuit: the calls it makes, in order.  What the callees  *)
(* return is an input: NewCompiler, DefineConstants, Circuit and Marshal    *)
(* may each return an error.                                                *)
(***************************************************************************)
\* Values of params.CircFormat: the two formats, the unset string and
\* another name.
CircFormats == {"mpclc", "bristol", "", "json"}

NoCompile == [pc |-> "idle"]

PipeInit == pipe = NoCompile

\* A Params that asks for pruning whatever OptPruneGates says.
PruneAlways(p) == TRUE

\* if params.OptPruneGates
PruneWanted(p) == p.OptPruneGates

\* if params.CircOut != nil
HasCircOut(p) == p.CircOut

\* return nil, err
ReturnErr(st, err) == [st EXCEPT !.pc = "returned", !.err = err, !.circ = FALSE]

\* A callee has been called.
Called(st, name) == [st EXCEPT !.log = Append(st.log, name)]

\* cc, err := circuits.NewCompiler(...); if err != nil { return nil, err }
NewCompiler ==
    /\ pipe.pc = "idle"
    /\ \E verbose, prune, out, dot, fails \in BOOLEAN, format \in CircFormats :
         LET st == [pc |-> "new",
                    params |-> [Verbose |-> verbose, OptPruneGates |-> prune,
                                CircOut |-> out, CircDotOut |-> dot, CircFormat |-> format],
                    log |-> <<"NewCompiler">>, written |-> {}, err |-> "", circ |-> FALSE]
         IN  pipe' = IF fails THEN ReturnErr(st, "NewCompiler") ELSE st
    /\ UNCHANGED <<genVars, setVars, paramsVars, compVars, nativeVars, lowVars, evVars, parseVars, mpVars, offVars>>

\* err = prog.DefineConstants(cc); if err != nil { return nil, err }
CallDefineConstants ==
    /\ pipe.pc = "new"
    /\ \E fails \in BOOLEAN :
         LET st == Called(pipe, "DefineConstants")
         IN  pipe' = IF fails THEN ReturnErr(st, "DefineConstants")
                     ELSE [st EXCEPT !.pc = "defined"]
    /\ UNCHANGED <<genVars, setVars, paramsVars, compVars, nativeVars, lowVars, evVars, parseVars, mpVars, offVars>>

\* err = prog.Circuit(cc); if err != nil { return nil, err }
CallCircuit ==
    /\ pipe.pc = "defined"
    /\ \E fails \in BOOLEAN :
         LET st == Called(pipe, "Circuit")
         IN  pipe' = IF fails THEN ReturnErr(st, "Circuit")
                     ELSE [st EXCEPT !.pc = "lowered"]
    /\ UNCHANGED <<genVars, setVars, paramsVars, compVars, nativeVars, lowVars, evVars, parseVars, mpVars, offVars>>

\* if params.OptPruneGates { pruned := cc.Prune() }
CallPrune ==
    /\ pipe.pc = "lowered"
    /\ pipe' = IF PruneWanted(pipe.params)
               THEN [Called(pipe, "Prune") EXCEPT !.pc = "pruned"]
               ELSE [pipe EXCEPT !.pc = "pruned"]
    /\ UNCHANGED <<genVars, setVars, paramsVars, compVars, nativeVars, lowVars, evVars, parseVars, mpVars, offVars>>

\* circ := cc.Compile()
CallCompile ==
    /\ pipe.pc = "pruned"
    /\ pipe' = [Called(pipe, "Compile") EXCEPT !.pc = "compiled"]
    /\ UNCHANGED <<genVars, setVars, paramsVars, compVars, nativeVars, lowVars, evVars, parseVars, mpVars, offVars>>

\* if params.CircOut != nil { switch params.CircFormat {...} }
Serialize ==
    /\ pipe.pc = "compiled"
    /\ \E fails \in BOOLEAN :
         pipe' =
            IF ~HasCircOut(pipe.params) THEN [pipe EXCEPT !.pc = "serialized"]
            ELSE IF pipe.params.CircFormat = "mpclc"
            THEN LET st == [Called(pipe, "Marshal") EXCEPT !.written = @ \cup {"CircOut"}]
                 IN  IF fails THEN ReturnErr(st, "Marshal")
                     ELSE [st EXCEPT !.pc = "serialized"]
            ELSE IF pipe.params.CircFormat = "bristol"
            THEN [Called(pipe, "MarshalBristol") EXCEPT
                     !.written = @ \cup {"CircOut"}, !.pc = "serialized"]
            ELSE ReturnErr(pipe, "unsupported circuit format")
    /\ UNCHANGED <<genVars, setVars, paramsVars, compVars, nativeVars, lowVars, evVars, parseVars, mpVars, offVars>>

\* if params.CircDotOut != nil { circ.Dot(params.CircDotOut) }; return circ, nil
DotAndReturn ==
    /\ pipe.pc = "serialized"
    /\ pipe' = [(IF pipe.params.CircDotOut
                 THEN [Called(pipe, "Dot") EXCEPT !.written = @ \cup {"CircDotOut"}]
                 ELSE pipe)
                EXCEPT !.pc = "returned", !.circ = TRUE]
    /\ UNCHANGED <<genVars, setVars, paramsVars, compVars, nativeVars, lowVars, evVars, parseVars, mpVars, offVars>>

PipeNext ==
    \/ NewCompiler
    \/ CallDefineConstants
    \/ CallCircuit
    \/ CallPrune
    \/ CallCompile
    \/ Serialize
    \/ DotAndReturn


(***************************************************************************)
(* The native builtin: nativeCircuit, and the earlier nativeSSA that loads  *)
(* the circuit itself.                                                      *)
(***************************************************************************)
\* All sequences over S of length 0..n.
SeqsUpTo(S, n) == UNION {[1..k -> S] : k \in 0..n}

\* Arguments of a call: one or two bits wide, variable or constant.
NativeArgs ==
    { [Name |-> "v", Type |-> [Type |-> "Uint", Bits |-> b],
       Const |-> c, ConstKind |-> IF c THEN "int32" ELSE "none"] :
        b \in {1, 2}, c \in BOOLEAN }

\* The string constant naming the circuit file.
CircName ==
    [Name |-> "$x.circ", Type |-> [Type |-> "String", Bits |-> 48],
     Const |-> TRUE, ConstKind |-> "string"]

\* The input and output widths (circuit.IO) of a parsed circuit.
IOSizes == {[Size |-> 1], [Size |-> 2]}

CircOutputs == <<[Size |-> 2], [Size |-> 1]>>

\* gen.RemoveConstant(c)
RemoveConstant(pool, c) == MapDelete(pool, c.Name)

\* The loop checking that the argument types match, from input idx on, of
\* nativeCircuit.  args[idx] beyond the arguments is an index out of range.
RECURSIVE CheckArgs(_, _, _)
CheckArgs(inputs, args, idx) ==
    IF idx > Len(inputs) THEN "ok"
    ELSE IF idx > Len(args) THEN "panic"
    ELSE IF \/ inputs[idx].Size < args[idx].Type.Bits
            \/ inputs[idx].Size > args[idx].Type.Bits /\ ~args[idx].Const
         THEN "error: invalid argument"
    ELSE CheckArgs(inputs, args, idx + 1)

\* if len(circ.Inputs) < len(args) {...} else if len(circ.Inputs) < len(args) {...}
ArgCount(nin, nargs) ==
    IF nin < nargs THEN "error: not enought argument"
    ELSE IF nin < nargs THEN "error: too many argument"
    ELSE "ok"

\* How nativeCircuit ends, up to the point where it mints the results.
NativeCircuitOutcome(circ, args, parsed) ==
    IF ~parsed THEN "error: failed to parse circuit"
    ELSE IF ArgCount(Len(circ.Inputs), Len(args)) # "ok"
         THEN ArgCount(Len(circ.Inputs), Len(args))
    ELSE CheckArgs(circ.Inputs, args, 1)

\* The same loop of the earlier nativeSSA: args[0] is the circuit name and
\* the widths must be equal.
RECURSIVE CheckArgsSSA(_, _, _)
CheckArgsSSA(inputs, args, idx) ==
    IF idx > Len(inputs) THEN "ok"
    ELSE IF idx + 1 > Len(args) THEN "panic"
    ELSE IF inputs[idx].Size # args[idx + 1].Type.Bits
         THEN "error: invalid argument"
    ELSE CheckArgsSSA(inputs, args, idx + 1)

\* How the earlier nativeSSA ends, up to the point where it mints the results.
NativeSSAOutcome(circ, args, opened, parsed) ==
    IF Len(args) < 1 THEN "error: not enought argument"
    ELSE IF ~args[1].Const \/ args[1].ConstKind # "string"
         THEN "error: not enought argument"
    ELSE IF ~opened THEN "error: failed to open circuit"
    ELSE IF ~parsed THEN "error: failed to parse circuit"
    ELSE IF ArgCount(Len(circ.N1 \o circ.N2), Len(args) - 1) # "ok"
         THEN ArgCount(Len(circ.N1 \o circ.N2), Len(args) - 1)
    ELSE CheckArgsSSA(circ.N1 \o circ.N2, args, 1)

\* The loop minting one anonymous result per circuit output.
RECURSIVE MintResults(_, _, _, _)
MintResults(vs, outs, i, acc) ==
    IF i > Len(outs) THEN [versions |-> vs, result |-> acc]
    ELSE LET v == AnonVarRet(vs, [Type |-> "Undefined", Bits |-> outs[i].Size])
         IN  MintResults(MapPut(vs, anon, v), outs, i + 1, Append(acc, v))

\* ssa.NewCircInstr(args, circ, result)
NewCircInstr(args, circ, result) ==
    [Op |-> "Circ", In |-> args, Circ |-> circ, Ret |-> result]

NoCall == [fn |-> "none"]

NativeInit ==
    /\ block = << >>
    /\ nat = NoCall

\* nativeCircuit(name, block, ctx, gen, args, loc)
NativeCircuitCall ==
    /\ nat = NoCall
    /\ \E args \in SeqsUpTo(NativeArgs, MaxArgs),
          ins \in SeqsUpTo(IOSizes, MaxInputs),
          parsed \in BOOLEAN :
         LET circ == [Inputs |-> ins, Outputs |-> CircOutputs]
             how  == NativeCircuitOutcome(circ, args, parsed)
             m    == MintResults(versions, circ.Outputs, 1, << >>)
         IN  /\ nat' = [fn |-> "nativeCircuit", args |-> args, inputs |-> ins,
                        parsed |-> parsed, outcome |-> how]
             /\ IF how = "ok"
                THEN /\ versions' = m.versions
                     /\ block' = Append(block, NewCircInstr(args, circ, m.result))
                ELSE UNCHANGED <<versions, block>>
    /\ UNCHANGED <<constants, calls, setVars, paramsVars, compVars, lowVars, evVars, parseVars, mpVars, pipeVars, offVars>>

\* nativeSSA(block, ctx, gen, args, loc), the earlier version
NativeSSACall ==
    /\ nat = NoCall
    /\ \E first \in SeqsUpTo({CircName, CHOOSE a \in NativeArgs : ~a.Const}, 1),
          rest \in SeqsUpTo(NativeArgs, MaxArgs),
          ins \in SeqsUpTo(IOSizes, MaxInputs),
          opened \in BOOLEAN, parsed \in BOOLEAN :
         \E k \in 0..Len(ins) :
            LET args == first \o rest
                circ == [N1 |-> SubSeq(ins, 1, k), N2 |-> SubSeq(ins, k + 1, Len(ins)),
                         N3 |-> CircOutputs]
                how  == NativeSSAOutcome(circ, args, opened, parsed)
                m    == MintResults(versions, circ.N3, 1, << >>)
            IN  /\ first = << >> => rest = << >>
                /\ nat' = [fn |-> "nativeSSA", args |-> rest,
                           inputs |-> ins, parsed |-> opened /\ parsed,
                           named |-> first = <<CircName>>, outcome |-> how]
                /\ constants' = IF Len(args) >= 1 /\ args[1].Const /\ args[1].ConstKind = "string"
                                THEN RemoveConstant(constants, args[1])
                                ELSE constants
                /\ IF how = "ok"
                   THEN /\ versions' = m.versions
                        /\ block' = Append(block, NewCircInstr(Tail(args), circ, m.result))
                   ELSE UNCHANGED <<versions, block>>
    /\ UNCHANGED <<calls, setVars, paramsVars, compVars, lowVars, evVars, parseVars, mpVars, pipeVars, offVars>>

NativeNext == NativeCircuitCall \/ NativeSSACall


(***************************************************************************)
(* Program.Circuit on a program of one instruction.                         *)
(***************************************************************************)
\* An int32 index constant of a Slice instruction, named after its value.
IndexConst(v) ==
    [Name |-> <<36, 48 + v + 1>>, Type |-> [Bits |-> 32, MinBits |-> 32],
     Const |-> TRUE, ConstKind |-> "int32", ConstValue |-> v]

\* The index operands a Slice instruction may carry: int32 constants, a
\* constant of another type and a variable.
SliceIndexes ==
    {IndexConst(v) : v \in -1..MaxBits + 1}
        \cup {[IndexConst(1) EXCEPT !.ConstKind = "mpa"],
              [IndexConst(1) EXCEPT !.Const = FALSE, !.ConstKind = "none"]}

\* The operand of the instruction: variable x of `bits` bits.
Operand(bits) == [VarX EXCEPT !.Type = [Bits |-> bits, MinBits |-> bits]]

\* The result of the instruction: variable y of `bits` bits.
Result(bits) ==
    [Name |-> <<121>>, Type |-> [Bits |-> bits, MinBits |-> bits],
     Const |-> FALSE, ConstValue |-> 0]

NoLowering == [op |-> "none"]

LowInit == low = NoLowering

\* Program.Circuit on the single step x[from:to], whose result is as wide as
\* the slice when the bounds are in order.
CircuitSlice ==
    /\ low = NoLowering
    /\ \E bits \in 1..MaxBits, f \in SliceIndexes, t \in SliceIndexes :
         LET n == IF f.ConstValue < t.ConstValue THEN t.ConstValue - f.ConstValue ELSE 1
             instr == [Op |-> "Slice", In |-> <<Operand(bits), f, t>>, Out |-> Result(n)]
         IN  low' = [op |-> "Slice", instr |-> instr,
                     st |-> CircuitFrom(NewRun, <<instr>>, 1)]
    /\ UNCHANGED <<genVars, setVars, paramsVars, compVars, nativeVars, evVars, parseVars, mpVars, pipeVars, offVars>>


\* The input shapes of the nested circuits lowered here.
CircShapes ==
    { << >>, <<[Size |-> 1]>>, <<[Size |-> 2]>>, <<[Size |-> 1], [Size |-> 2]>>,
      <<[Size |-> 2], [Size |-> 2]>> }

\* Argument i of a call: a variable of `bits` bits (names "a", "b").
CircArgVar(i, bits) ==
    [Name |-> <<96 + i>>, Type |-> [Type |-> "Uint", Bits |-> bits, MinBits |-> bits],
     Const |-> FALSE, ConstKind |-> "none", ConstValue |-> 0]

\* The constant v held in a type of `bits` bits, named after both.
CircArgConst(v, bits) ==
    [Name |-> <<36, 48 + v, 47, 48 + bits>>,
     Type |-> [Type |-> "Uint", Bits |-> bits, MinBits |-> IF v < 2 THEN 1 ELSE 2],
     Const |-> TRUE, ConstKind |-> "int32", ConstValue |-> v]

\* What a call may pass in position i.
CircArgs(i) ==
    {CircArgVar(i, b) : b \in {1, 2}}
        \cup {CircArgConst(1, 1), CircArgConst(1, 2), CircArgConst(3, 2)}

\* Result i of a Circ instruction, as wide as the nested circuit's output i
\* (names "%0", "%1").
CircResult(i, out) ==
    [Name |-> <<37, 48 + i>>, Type |-> [Type |-> "Undefined", Bits |-> out.Size, MinBits |-> 0],
     Const |-> FALSE, ConstKind |-> "none", ConstValue |-> 0]

\* The gates a nested circuit of n wires may hold, nin of them inputs and
\* nint intermediate: from the last input or the last intermediate wire and
\* the first wire after the inputs to the last output.
CircGates(n, nin, nint) ==
    { [Op |-> op, Input0 |-> i0, Input1 |-> nin, Output |-> n - 1] :
        op \in {"XOR", "XNOR", "AND", "OR", "INV"},
        i0 \in {IF nin > 0 THEN nin - 1 ELSE 0, IF nin + nint > 0 THEN nin + nint - 1 ELSE 0} }

\* The state Program.Circuit starts in when the program's constants are
\* `consts`: DefineConstants has run.
DefinedRun(consts) ==
    LET names == {c.Name : c \in consts}
        byName == [k \in names |-> CHOOSE c \in consts : c.Name = k]
        order == CHOOSE o \in Orders(names) : TRUE
    IN  DefineFrom(NewRun, SortSlice([i \in DOMAIN order |-> byName[order[i]]]), 1)

\* Program.Circuit on the single step of a call of a nested circuit, the
\* instruction being one nativeCircuit accepts.
CircuitCirc ==
    /\ low = NoLowering
    /\ \E shape \in CircShapes, nint \in 0..MaxInter :
         \E args \in [DOMAIN shape -> UNION {CircArgs(i) : i \in 1..2}] :
            LET nin == IF shape = << >> THEN 0
                       ELSE IF Len(shape) = 1 THEN shape[1].Size
                       ELSE shape[1].Size + shape[2].Size
                n == nin + nint + CircOutputs[1].Size + CircOutputs[2].Size
            IN  /\ \A i \in DOMAIN args : args[i] \in CircArgs(i)
                /\ CheckArgs(shape, args, 1) = "ok"
                /\ \E gates \in SeqsUpTo(CircGates(n, nin, nint), MaxNested) :
                     LET circ == [Inputs |-> shape, Outputs |-> CircOutputs,
                                  NumWires |-> n, Gates |-> gates]
                         result == [i \in DOMAIN CircOutputs |-> CircResult(i, CircOutputs[i])]
                         instr == NewCircInstr(args, circ, result)
                         st0 == DefinedRun({args[i] : i \in {j \in DOMAIN args : args[j].Const}})
                     IN  low' = [op |-> "Circ", instr |-> instr, st0 |-> st0,
                                 st |-> CircuitFrom(st0, <<instr>>, 1)]
    /\ UNCHANGED <<genVars, setVars, paramsVars, compVars, nativeVars, evVars, parseVars, mpVars, pipeVars, offVars>>

\* Program.Circuit on an arithmetic or bit-test instruction followed by a GC
\* step.  The result's width may be unset (0), which makes prog.Wires fail.
CircuitOp ==
    /\ low = NoLowering
    /\ \E op \in {"Iadd", "Isub", "Bts", "Btc"}, bits \in 1..MaxBits, n \in 0..MaxBits,
          index \in SliceIndexes, fails \in BOOLEAN :
         LET instr == [Op |-> op, In |-> <<Operand(bits), index>>, Out |-> Result(n),
                       BuilderFails |-> fails]
             gc == [Op |-> "GC", In |-> << >>, Out |-> VarX]
         IN  low' = [op |-> op, instr |-> instr, st0 |-> NewRun,
                     st |-> CircuitFrom(NewRun, <<instr, gc>>, 1)]
    /\ UNCHANGED <<genVars, setVars, paramsVars, compVars, nativeVars, evVars, parseVars, mpVars, pipeVars, offVars>>

(***************************************************************************)
(* mpa.Int: a width `bits` and a big.Int `values`.                          *)
(***************************************************************************)
Max(a, b) == IF a > b THEN a ELSE b

\* big.Int: x.Bit(i), two's complement for negative x.
BigBit(x, i) == (x \div 2 ^ i) % 2

\* big.Int: x.BitLen(), the length of the absolute value.
RECURSIVE BigBitLen(_)
BigBitLen(x) ==
    IF x = 0 THEN 0
    ELSE IF x < 0 THEN BigBitLen(-x)
    ELSE 1 + BigBitLen(x \div 2)

\* big.Int: x.Sign()
BigSign(x) == IF x < 0 THEN -1 ELSE IF x = 0 THEN 0 ELSE 1

\* big.Int: z.SetBit(x, i, 0)
BigClearBit(x, i) == x - BigBit(x, i) * 2 ^ i

AndBit(a, b) == a * b

OrBit(a, b) == a + b - a * b

XorBit(a, b) == (a + b) % 2

\* The bit operator named op applied to two bits.
BitOp(op, a, b) ==
    CASE op = "And" -> AndBit(a, b)
      [] op = "Or"  -> OrBit(a, b)
      [] op = "Xor" -> XorBit(a, b)

\* big.Int: z.And(x, y), z.Or(x, y), z.Xor(x, y) by the bit operator op, on
\* the two's-complement forms with their signs extended.
RECURSIVE BigBits(_, _, _, _)
BigBits(op, x, y, n) ==
    IF n = 0 THEN 0
    ELSE BigBits(op, x, y, n - 1) + BitOp(op, BigBit(x, n - 1), BigBit(y, n - 1)) * 2 ^ (n - 1)

BigBitwise(op, x, y) ==
    BigBits(op, x, y, BigWidth) - BitOp(op, BigBit(x, BigWidth), BigBit(y, BigWidth)) * 2 ^ BigWidth

\* An Int, and the outcome of a run-time panic.
MpInt(bits, values) == [bits |-> bits, values |-> values, panic |-> FALSE]

IntPanic == [bits |-> 0, values |-> 0, panic |-> TRUE]

\* z.setSign(): values negated when its sign differs from the one bit
\* bits-1 asks for.  Bit panics on a negative index.
setSign(z) ==
    IF z.bits - 1 < 0 THEN IntPanic
    ELSE LET sign == IF BigBit(z.values, z.bits - 1) = 1 THEN -1 ELSE 1
         IN  IF sign # BigSign(z.values) THEN MpInt(z.bits, -z.values) ELSE z

\* z.SetBig(x)
SetBig(x) ==
    LET bits == BigBitLen(x)
    IN  MpInt(IF bits > 0 /\ BigSign(x) = 1 /\ BigBit(x, bits - 1) = 1 THEN bits + 1 ELSE bits, x)

\* z.And(x, y), z.Or(x, y), z.Xor(x, y)
IntAnd(x, y) == setSign(MpInt(Max(x.bits, y.bits), BigBitwise("And", x.values, y.values)))

IntOr(x, y) == setSign(MpInt(Max(x.bits, y.bits), BigBitwise("Or", x.values, y.values)))

IntXor(x, y) == setSign(MpInt(Max(x.bits, y.bits), BigBitwise("Xor", x.values, y.values)))

\* The loop of Lsh clearing bits i, i-1, ..., bits of values.
RECURSIVE ClearFrom(_, _, _)
ClearFrom(values, i, bits) ==
    IF i < bits THEN values ELSE ClearFrom(BigClearBit(values, i), i - 1, bits)

\* z.Lsh(x, n)
IntLsh(x, n) ==
    LET shifted == x.values * 2 ^ n
    IN  setSign(MpInt(x.bits, ClearFrom(shifted, BigBitLen(shifted) - 1, x.bits)))

\* z.Rsh(x, n)
IntRsh(x, n) == setSign(MpInt(x.bits, x.values \div 2 ^ n))

\* circ.Compute on the circuit op builds for x and y: the output wires read
\* as a number of `bits` bits.  Division by zero yields all ones and the
\* remainder x.
Compute(op, x, y, bits) ==
    CASE op = "Adder"      -> (x + y) % 2 ^ bits
      [] op = "Subtractor" -> (x - y) % 2 ^ bits
      [] op = "Multiplier" -> (x * y) % 2 ^ bits
      [] op = "Quotient"   -> IF y = 0 THEN 2 ^ bits - 1 ELSE (x \div y) % 2 ^ bits
      [] op = "Remainder"  -> IF y = 0 THEN x % 2 ^ bits ELSE (x % y) % 2 ^ bits

\* z.bin(op, x, y)
bin(op, x, y) ==
    LET bits == Max(x.bits, y.bits)
    IN  setSign(MpInt(bits, Compute(op, x.values, y.values, bits)))

\* z.Add(x, y), z.Sub(x, y), z.Mul(x, y), z.Div(x, y), z.Mod(x, y)
IntAdd(x, y) == bin("Adder", x, y)

IntSub(x, y) == bin("Subtractor", x, y)

IntMul(x, y) == bin("Multiplier", x, y)

IntDiv(x, y) == bin("Quotient", x, y)

IntMod(x, y) == bin("Remainder", x, y)

\* z.Cmp(x)
IntCmp(z, x) == IF z.values < x.values THEN -1 ELSE IF z.values > x.values THEN 1 ELSE 0

\* z.Int64(): the sign is set on z itself before the value is read.
Int64(z) == setSign(z)

\* The Ints the folder makes from integer literals.
IntOperands == {SetBig(v) : v \in 0..MaxMag}

NoOp == [op |-> "none"]

MpInit == mp = NoOp

\* z.And(x, y), z.Or(x, y) or z.Xor(x, y); host is the big.Int result.
BitwiseOp ==
    /\ mp = NoOp
    /\ \E x \in IntOperands, y \in IntOperands :
         \/ mp' = [op |-> "And", x |-> x, y |-> y, n |-> 0,
                   host |-> BigBitwise("And", x.values, y.values), z |-> IntAnd(x, y)]
         \/ mp' = [op |-> "Or", x |-> x, y |-> y, n |-> 0,
                   host |-> BigBitwise("Or", x.values, y.values), z |-> IntOr(x, y)]
         \/ mp' = [op |-> "Xor", x |-> x, y |-> y, n |-> 0,
                   host |-> BigBitwise("Xor", x.values, y.values), z |-> IntXor(x, y)]
    /\ UNCHANGED <<genVars, setVars, paramsVars, compVars, nativeVars, lowVars, evVars, parseVars, pipeVars, offVars>>

\* z.Lsh(x, n) or z.Rsh(x, n)
ShiftOp ==
    /\ mp = NoOp
    /\ \E x \in IntOperands, n \in 0..MaxShift :
         \/ mp' = [op |-> "Lsh", x |-> x, y |-> x, n |-> n,
                   host |-> x.values * 2 ^ n, z |-> IntLsh(x, n)]
         \/ mp' = [op |-> "Rsh", x |-> x, y |-> x, n |-> n,
                   host |-> x.values \div 2 ^ n, z |-> IntRsh(x, n)]
    /\ UNCHANGED <<genVars, setVars, paramsVars, compVars, nativeVars, lowVars, evVars, parseVars, pipeVars, offVars>>

\* z := new(Int).SetBig(x), then z.Int64() twice: `z` is the Int after the
\* first call, whose values is what the call returned, `again` after the second.
Int64Calls ==
    /\ mp = NoOp
    /\ \E v \in -MaxMag..MaxMag :
         mp' = [op |-> "Int64", x |-> SetBig(v), y |-> SetBig(v), n |-> 0, host |-> v,
                z |-> Int64(SetBig(v)), again |-> Int64(Int64(SetBig(v)))]
    /\ UNCHANGED <<genVars, setVars, paramsVars, compVars, nativeVars, lowVars, evVars, parseVars, pipeVars, offVars>>

MpNext == BitwiseOp \/ ShiftOp \/ Int64Calls

(***************************************************************************)
(* The constant folder: the Eval methods of the expression nodes.  A        *)
(* sub-expression is given by what its own Eval returns.                    *)
(***************************************************************************)
\* math.MaxInt32
MaxInt32 == 2147483647

\* The width of int32 and uint32.
Int32Bits == 32

\* types.Undefined, types.Bool and types.Int32
TUndefined == [Type |-> "Undefined", Bits |-> 0, MinBits |-> 0, IsConcrete |-> FALSE]

TBool == [Type |-> "Bool", Bits |-> 1, MinBits |-> 1, IsConcrete |-> TRUE]

TInt32 == [Type |-> "Int", Bits |-> 32, MinBits |-> 32, IsConcrete |-> TRUE]

\* The host values a constant carries (ConstValue interface{}): its Go type
\* Kind and, by kind, the number Val (1 for true), the width Bits of an
\* *mpa.Int, the elements or bytes Elems, or the types.Info Ref.
Host(kind, val, bits, elems, ref) ==
    [Kind |-> kind, Val |-> val, Bits |-> bits, Elems |-> elems, Ref |-> ref]

HostNone == Host("none", 0, 0, << >>, TUndefined)

HostBool(b) == Host("bool", IF b THEN 1 ELSE 0, 0, << >>, TUndefined)

HostInt32(v) == Host("int32", v, 0, << >>, TUndefined)

HostMpa(v, bits) == Host("mpa", v, bits, << >>, TUndefined)

HostString(bytes) == Host("string", 0, 0, bytes, TUndefined)

HostArray(elems) == Host("array", 0, 0, elems, TUndefined)

HostType(ti) == Host("typeref", 0, 0, << >>, ti)

\* ssa.Undefined
Undefined == [Const |-> FALSE, ConstValue |-> HostNone, Type |-> TUndefined]

\* gen.Constant(value, ti): a constant carrying the host value.
Constant(value, ti) == [Const |-> TRUE, ConstValue |-> value, Type |-> ti]

\* The *mpa.Int a constant carries, and the host value of an *mpa.Int.
MpaOf(c) == MpInt(c.ConstValue.Bits, c.ConstValue.Val)

HostOf(z) == HostMpa(z.values, z.bits)

\* What an Eval returns: the value, folded, the error ("" is nil) and the
\* sub-expressions it evaluated, in order.  A run-time panic is the error
\* "panic".
Ret3(val, ok, err, seen) == [val |-> val, ok |-> ok, err |-> err, seen |-> seen]

Folded(val, seen) == Ret3(val, TRUE, "", seen)

Failed(err, seen) == Ret3(Undefined, FALSE, err, seen)

\* A failing sub-expression reported as folded.
PassedAsFolded(sub, seen) == Ret3(Undefined, TRUE, "", seen)

\* return ssa.Undefined, ok, err: a sub-expression's ok and err passed on.
Passed(sub, seen) == Ret3(Undefined, sub.ok, sub.err, seen)

\* A sub-expression whose Eval folds to val, one that cannot be folded, one
\* whose Eval returns an error, and an absent (nil) sub-expression.
Lit(val) == [nil |-> FALSE, val |-> val, ok |-> TRUE, err |-> ""]

Unfoldable == [nil |-> FALSE, val |-> Undefined, ok |-> FALSE, err |-> ""]

Erring(err) == [nil |-> FALSE, val |-> Undefined, ok |-> FALSE, err |-> err]

Nil == [nil |-> TRUE, val |-> Undefined, ok |-> FALSE, err |-> ""]

\* Bit i of the two's-complement form of the int32 v.
Bit32(v, i) ==
    IF i = Int32Bits - 1 THEN v < 0
    ELSE IF v >= 0 THEN (v \div 2 ^ i) % 2 = 1
    ELSE (((v + 2 ^ 30) + 2 ^ 30) \div 2 ^ i) % 2 = 1

\* The value of the low n bits b[0..n-1].
RECURSIVE BitsValue(_, _)
BitsValue(b, n) ==
    IF n = 0 THEN 0
    ELSE BitsValue(b, n - 1) + (IF b[n - 1] THEN 2 ^ (n - 1) ELSE 0)

\* int32(tmp) for the uint32 with bits b.
ToInt32(b) ==
    IF b[Int32Bits - 1]
    THEN (BitsValue(b, Int32Bits - 1) - 2 ^ 30) - 2 ^ 30
    ELSE BitsValue(b, Int32Bits - 1)

\* tmp := uint32(val); tmp >>= from; tmp &^= 0xffffffff << (to - from)
SliceInt32(val, from, to) ==
    ToInt32([i \in 0..Int32Bits - 1 |->
                /\ i < to - from
                /\ i + from < Int32Bits
                /\ Bit32(val, i + from)])

\* intVal(val) for the ssa.Value val.
IntVal(val) ==
    IF ~val.Const THEN [err |-> "non-const slice index", int |-> 0]
    ELSE IF val.ConstValue.Kind = "int32" THEN [err |-> "", int |-> val.ConstValue.Val]
    ELSE IF val.ConstValue.Kind = "mpa"
    THEN IF Int64(MpaOf(val)).panic THEN [err |-> "panic", int |-> 0]
         ELSE [err |-> "", int |-> Int64(MpaOf(val)).values]
    ELSE [err |-> "invalid slice index", int |-> 0]

\* Slice.Eval once expr, from and to are known.
SliceValue(expr, from, to0, seen) ==
    IF to0 <= from THEN Failed("invalid slice range", seen)
    ELSE IF expr.ConstValue.Kind = "int32"
    THEN IF to0 > Int32Bits THEN Failed("slice bounds out of range", seen)
         ELSE IF from < 0 THEN Failed("panic", seen)
         ELSE Folded(Constant(HostInt32(SliceInt32(expr.ConstValue.Val, from, to0)), TInt32),
                     seen)
    ELSE IF expr.ConstValue.Kind = "array"
    THEN LET val == expr.ConstValue.Elems
             to == IF to0 = MaxInt32 THEN Len(val) ELSE to0
         IN  IF to > Len(val) THEN Failed("slice bounds out of range", seen)
             ELSE IF from < 0 \/ from > to THEN Failed("panic", seen)
             ELSE Folded(Constant(HostArray(SubSeq(val, from + 1, to)), TUndefined), seen)
    ELSE Failed("Slice.Eval: not implemented yet", seen)

\* Slice.Eval from the evaluation of ast.To on.
SliceEvalTo(expr, from, To, seen) ==
    IF To.nil THEN SliceValue(expr, from, MaxInt32, seen)
    ELSE IF To.err # "" \/ ~To.ok THEN Passed(To, Append(seen, "To"))
    ELSE IF IntVal(To.val).err # "" THEN Failed(IntVal(To.val).err, Append(seen, "To"))
    ELSE SliceValue(expr, from, IntVal(To.val).int, Append(seen, "To"))

\* Slice.Eval from the evaluation of ast.From on.
SliceEvalFrom(expr, From, To, seen) ==
    IF From.nil THEN SliceEvalTo(expr, 0, To, seen)
    ELSE IF From.err # "" \/ ~From.ok THEN Passed(From, Append(seen, "From"))
    ELSE IF IntVal(From.val).err # "" THEN Failed(IntVal(From.val).err, Append(seen, "From"))
    ELSE SliceEvalTo(expr, IntVal(From.val).int, To, Append(seen, "From"))

\* (ast *Slice) Eval
SliceEval(Expr, From, To) ==
    IF Expr.err # "" \/ ~Expr.ok THEN Passed(Expr, <<"Expr">>)
    ELSE SliceEvalFrom(Expr.val, From, To, <<"Expr">>)

\* The int32 constants v.
Int32Const(v) == Constant(HostInt32(v), TInt32)

\* The array constants of n int32 elements.
ArrayConst(n) ==
    Constant(HostArray([i \in 1..n |-> i]),
             [Type |-> "Array", Bits |-> n * 32, MinBits |-> n * 32, IsConcrete |-> TRUE,
              ElementType |-> TInt32])

\* Sub-expressions that do not fold to a constant.
NotFolding == {Unfoldable, Erring("undefined variable"), Erring("package not found")}

\* The operands of a slice expression.
SliceOperands ==
    {Lit(Int32Const(v)) : v \in {5, -3}}
        \cup {Lit(ArrayConst(n)) : n \in 0..MaxBits - 1}
        \cup {Lit(Constant(HostBool(TRUE), TBool))} \cup NotFolding

\* The bounds of a slice expression.
SliceBounds ==
    {Lit(Int32Const(v)) : v \in (-1..MaxBits) \cup {Int32Bits, Int32Bits + 1}}
        \cup {Lit(Constant(HostBool(TRUE), TBool)), Nil} \cup NotFolding


\* Binary.Eval for two bool constants.
BinaryBool(l, r, op, seen) ==
    LET lval == l.ConstValue.Val = 1
        rval == r.ConstValue.Val = 1
    IN  IF r.ConstValue.Kind # "bool" THEN Failed("invalid types", seen)
        ELSE CASE op = "BinaryEq"  -> Folded(Constant(HostBool(lval = rval), TBool), seen)
               [] op = "BinaryNeq" -> Folded(Constant(HostBool(lval # rval), TBool), seen)
               [] op = "BinaryAnd" -> Folded(Constant(HostBool(lval /\ rval), TBool), seen)
               [] op = "BinaryOr"  -> Folded(Constant(HostBool(lval \/ rval), TBool), seen)
               [] OTHER -> Failed("Binary.Eval: not supported", seen)

\* The constant of an mpa result z with type ti, or the panic of computing it.
MpaResult(z, ti, seen) ==
    IF z.panic THEN Failed("panic", seen) ELSE Folded(Constant(HostOf(z), ti), seen)

\* Binary.Eval for two *mpa.Int constants.
BinaryMpa(l, r, op, seen) ==
    LET lval == MpaOf(l)
        rval == MpaOf(r)
        cmp == IntCmp(lval, rval)
        n == Int64(rval)
    IN  IF r.ConstValue.Kind # "mpa" THEN Failed("invalid r-value", seen)
        ELSE CASE op = "BinaryMul" -> MpaResult(IntMul(lval, rval), l.Type, seen)
               [] op = "BinaryDiv" -> MpaResult(IntDiv(lval, rval), l.Type, seen)
               [] op = "BinaryMod" -> MpaResult(IntMod(lval, rval), l.Type, seen)
               [] op = "BinaryLshift" ->
                      IF n.panic THEN Failed("panic", seen)
                      ELSE MpaResult(IntLsh(lval, n.values), l.Type, seen)
               [] op = "BinaryBor" -> MpaResult(IntOr(lval, rval), l.Type, seen)
               [] op = "BinaryAdd" -> MpaResult(IntAdd(lval, rval), l.Type, seen)
               [] op = "BinarySub" -> MpaResult(IntSub(lval, rval), l.Type, seen)
               [] op = "BinaryEq"  -> Folded(Constant(HostBool(cmp = 0), TBool), seen)
               [] op = "BinaryNeq" -> Folded(Constant(HostBool(cmp # 0), TBool), seen)
               [] op = "BinaryLt"  -> Folded(Constant(HostBool(cmp = -1), TBool), seen)
               [] op = "BinaryLe"  -> Folded(Constant(HostBool(cmp # 1), TBool), seen)
               [] op = "BinaryGt"  -> Folded(Constant(HostBool(cmp = 1), TBool), seen)
               [] op = "BinaryGe"  -> Folded(Constant(HostBool(cmp # -1), TBool), seen)
               [] OTHER -> Failed("Binary.Eval: not implemented yet", seen)

\* Binary.Eval for two string constants: lval + rval whatever the operator.
BinaryString(l, r, op, seen) ==
    IF r.ConstValue.Kind # "string" THEN Failed("invalid types", seen)
    ELSE Folded(Constant(HostString(l.ConstValue.Elems \o r.ConstValue.Elems), TUndefined),
                seen)

\* (ast *Binary) Eval
BinaryEval(Left, Right, op) ==
    IF Left.err # "" \/ ~Left.ok THEN Passed(Left, <<"Left">>)
    ELSE IF Right.err # "" \/ ~Right.ok THEN Passed(Right, <<"Left", "Right">>)
    ELSE LET l == Left.val
             r == Right.val
             seen == <<"Left", "Right">>
         IN  CASE l.ConstValue.Kind = "bool"   -> BinaryBool(l, r, op, seen)
               [] l.ConstValue.Kind = "mpa"    -> BinaryMpa(l, r, op, seen)
               [] l.ConstValue.Kind = "string" -> BinaryString(l, r, op, seen)
               [] OTHER -> Failed("invalid l-value", seen)

\* The integer binary operators of the language, and the logical ones.
IntegerOps ==
    {"BinaryMul", "BinaryDiv", "BinaryMod", "BinaryLshift", "BinaryRshift",
     "BinaryBand", "BinaryBclear", "BinaryBor", "BinaryBxor", "BinaryAdd", "BinarySub",
     "BinaryEq", "BinaryNeq", "BinaryLt", "BinaryLe", "BinaryGt", "BinaryGe"}

BinaryOps == IntegerOps \cup {"BinaryAnd", "BinaryOr"}

\* The constant of the integer literal v: its type is as wide as its Int.
MpaConst(v) ==
    Constant(HostOf(SetBig(v)),
             [Type |-> "Int", Bits |-> SetBig(v).bits, MinBits |-> SetBig(v).bits,
              IsConcrete |-> TRUE])

\* The string constant "a".
StringConst == Constant(HostString(<<97>>), [TUndefined EXCEPT !.Type = "String", !.Bits = 8])

\* The operands of a binary expression.
BinaryOperands ==
    {Lit(MpaConst(v)) : v \in 0..MaxMag}
        \cup {Lit(Constant(HostBool(b), TBool)) : b \in BOOLEAN}
        \cup {Lit(StringConst), Lit(Int32Const(5))} \cup NotFolding

\* -val for the int32 val.
Neg32(val) == IF val = -MaxInt32 - 1 THEN val ELSE -val

\* mpa.NewInt(x)
NewInt(x) == MpInt(64, x)

\* (ast *Unary) Eval
UnaryEval(Expr, type) ==
    IF Expr.err # "" \/ ~Expr.ok THEN Passed(Expr, <<"Expr">>)
    ELSE LET expr == Expr.val
             val == expr.ConstValue
             seen == <<"Expr">>
         IN  IF val.Kind = "bool" /\ type = "UnaryNot"
             THEN Folded(Constant(HostBool(val.Val # 1), TBool), seen)
             ELSE IF val.Kind = "int32" /\ type = "UnaryMinus"
             THEN Folded(Constant(HostInt32(Neg32(val.Val)), TInt32), seen)
             ELSE IF val.Kind = "mpa" /\ type = "UnaryMinus"
             THEN MpaResult(IntSub(NewInt(0), MpaOf(expr)), expr.Type, seen)
             ELSE Failed("invalid unary expression", seen)

\* Index.Eval once expr and index are known.
IndexValue(expr, index, seen) ==
    LET val == expr.ConstValue
    IN  IF val.Kind \in {"string", "array"}
        THEN IF index < 0 \/ index >= Len(val.Elems)
             THEN Failed("invalid array index", seen)
             ELSE IF val.Kind = "string"
             THEN Folded(Constant(Host("uint8", val.Elems[index + 1], 0, << >>, TUndefined),
                                  TInt32), seen)
             ELSE Folded(Constant(HostInt32(val.Elems[index + 1]), expr.Type.ElementType),
                         seen)
        ELSE Failed("Index.Eval: not implemented yet", seen)

\* (ast *Index) Eval
IndexEval(Expr, Index) ==
    IF Expr.err # "" \/ ~Expr.ok THEN Passed(Expr, <<"Expr">>)
    ELSE IF Index.err # "" \/ ~Index.ok THEN Passed(Index, <<"Expr", "Index">>)
    ELSE IF IntVal(Index.val).err # ""
    THEN Failed(IntVal(Index.val).err, <<"Expr", "Index">>)
    ELSE IndexValue(Expr.val, IntVal(Index.val).int, <<"Expr", "Index">>)

\* The operands of a unary expression; the 64-bit subtraction of the *mpa.Int
\* case is wider than the integers the checker computes with.
UnaryOperands ==
    {Lit(Int32Const(v)) : v \in {5, -3}}
        \cup {Lit(Constant(HostBool(b), TBool)) : b \in BOOLEAN}
        \cup {Lit(StringConst)} \cup NotFolding

\* The operands and the indices of an index expression.
IndexOperands ==
    {Lit(ArrayConst(n)) : n \in 0..MaxBits - 1}
        \cup {Lit(StringConst), Lit(Int32Const(5))} \cup NotFolding

IndexIndices ==
    {Lit(Int32Const(v)) : v \in -1..MaxBits}
        \cup {Lit(MpaConst(1)), Lit(Constant(HostBool(TRUE), TBool))} \cup NotFolding

\* constVal.ConstInt(): the integer a constant holds.
ConstInt(val) ==
    IF val.Const /\ val.ConstValue.Kind \in {"int32", "mpa"}
    THEN [err |-> "", int |-> val.ConstValue.Val]
    ELSE [err |-> "not an integer constant", int |-> 0]

\* What ast.Type.Resolve returns: the types.Info, or an error.
Resolved(ti) == [err |-> "", ti |-> ti]

Unresolved == [err |-> "undefined type", ti |-> TUndefined]

\* (ast *Make) Eval
MakeEval(Type, Exprs) ==
    IF Len(Exprs) # 1 THEN Failed("invalid amount of argument in call to make", << >>)
    ELSE IF Type.err # "" THEN Failed("is not a type", << >>)
    ELSE IF Type.ti.Type = "Array" THEN Ret3(Undefined, FALSE, "", << >>)
    ELSE IF Type.ti.Bits # 0 THEN Failed("can't make specified type", << >>)
    ELSE IF Exprs[1].err # "" THEN Failed(Exprs[1].err, <<"Exprs[0]">>)
    ELSE IF ConstInt(Exprs[1].val).err # ""
    THEN Failed("non-integer len argument", <<"Exprs[0]">>)
    ELSE Folded(Constant(HostType([Type.ti EXCEPT !.IsConcrete = TRUE,
                                                  !.Bits = ConstInt(Exprs[1].val).int]),
                         TUndefined),
                <<"Exprs[0]">>)

\* makeEval, the Eval of the builtin make: its value is the types.Info itself;
\* args[0] is a variable reference or not, and args[1:] are the Exprs.
makeEval(isRef, Type, Exprs) ==
    IF 1 + Len(Exprs) # 2
    THEN Ret3(HostNone, FALSE, "invalid amount of argument in call to make", << >>)
    ELSE IF ~isRef THEN Ret3(HostNone, FALSE, "is not a type", << >>)
    ELSE IF Type.err # "" THEN Ret3(HostNone, FALSE, "is not a type", << >>)
    ELSE IF Type.ti.Bits # 0
    THEN Ret3(HostNone, FALSE, "can't make specified type", << >>)
    ELSE IF Exprs[1].err # "" THEN Ret3(HostNone, FALSE, Exprs[1].err, <<"args[1]">>)
    ELSE IF Exprs[1].val.ConstValue.Kind # "int32"
    THEN Ret3(HostNone, FALSE, "non-integer len argument", <<"args[1]">>)
    ELSE Ret3(HostType([Type.ti EXCEPT !.Bits = Exprs[1].val.ConstValue.Val]), TRUE, "",
              <<"args[1]">>)

\* A type name without a width, one with a width, and array types.
Unsized(type) == [Type |-> type, Bits |-> 0, MinBits |-> 0, IsConcrete |-> FALSE]

MakeTypes ==
    {Resolved(Unsized("Int")), Resolved(Unsized("Uint")), Resolved(Unsized("Array")),
     Resolved(TInt32), Resolved(ArrayConst(2).Type), Unresolved}

\* The length arguments of make.
MakeLengths ==
    {Lit(Int32Const(v)) : v \in 1..MaxBits}
        \cup {Lit(MpaConst(2)), Lit(Constant(HostBool(TRUE), TBool)), Lit(StringConst)}
        \cup NotFolding

\* Value.HashCode() and Value.Equal(): a constant is hashed and compared by
\* the value it holds.
HashCode(v) == <<v.Const, v.ConstValue>>

Equal(v, o) == v.Const = o.Const /\ v.ConstValue = o.ConstValue

\* typeInfo.Concrete()
Concrete(ti) == ti.IsConcrete

\* The source constant's MinBits kept whatever the target's width.
CastMinBitsKept(constVal, typeInfo) == constVal.Type.MinBits

\* The MinBits of a cast: the constant's, or the target's Bits if smaller.
CastMinBits(constVal, typeInfo) ==
    IF constVal.Type.MinBits > typeInfo.Bits THEN typeInfo.Bits ELSE constVal.Type.MinBits

\* Call.Eval: the cast of the Int or Uint constant constVal to the Int or Uint
\* type typeInfo0.
Cast(constVal, typeInfo0, seen) ==
    LET typeInfo1 == IF ~Concrete(typeInfo0)
                     THEN [typeInfo0 EXCEPT !.Bits = constVal.Type.Bits, !.IsConcrete = TRUE]
                     ELSE typeInfo0
        typeInfo == [typeInfo1 EXCEPT !.MinBits = CastMinBits(constVal, typeInfo1)]
        cast == [constVal EXCEPT !.Type = typeInfo]
    IN  IF HashCode(constVal) # HashCode(cast) THEN Failed("panic", seen)
        ELSE IF ~Equal(constVal, cast) THEN Failed("panic", seen)
        ELSE Folded(cast, seen)

\* (ast *Call) Eval.  The package is found or not, the name is one of its
\* functions or not, a builtin with an Eval has returned `builtin` (Nil when
\* there is none), and the name resolves as a type to Type.
CallEval(pkgFound, isFunction, builtin, Type, Exprs) ==
    IF ~pkgFound THEN Failed("package not found", << >>)
    ELSE IF isFunction THEN Ret3(Undefined, FALSE, "", << >>)
    ELSE IF ~builtin.nil THEN Ret3(builtin.val, builtin.ok, builtin.err, << >>)
    ELSE IF Type.err # "" THEN Failed(Type.err, << >>)
    ELSE IF Len(Exprs) # 1 THEN Ret3(Undefined, FALSE, "", << >>)
    ELSE IF Exprs[1].err # "" THEN Failed(Exprs[1].err, <<"Exprs[0]">>)
    ELSE IF ~Exprs[1].ok THEN Ret3(Undefined, FALSE, "", <<"Exprs[0]">>)
    ELSE IF Type.ti.Type \in {"Int", "Uint"}
    THEN IF Exprs[1].val.Type.Type \in {"Int", "Uint"}
         THEN Cast(Exprs[1].val, Type.ti, <<"Exprs[0]">>)
         ELSE Failed("casting not supported", <<"Exprs[0]">>)
    ELSE Ret3(Undefined, FALSE, "", <<"Exprs[0]">>)

\* An Int or Uint of a known width.
Sized(type, bits) == [Type |-> type, Bits |-> bits, MinBits |-> bits, IsConcrete |-> TRUE]

\* The types a called name resolves to.
CallTypes ==
    {Resolved(Unsized("Int")), Resolved(Unsized("Uint")), Resolved(Sized("Int", 2)),
     Resolved(Sized("Uint", 8)), Resolved(TBool), Unresolved}

\* The constant of the integer v with a type of `bits` bits of its own.
TypedConst(v, type, bits) ==
    Constant(HostOf(SetBig(v)),
             [Type |-> type, Bits |-> bits, MinBits |-> SetBig(v).bits,
              IsConcrete |-> TRUE])

\* The arguments of a call.
CallArgs ==
    {Lit(TypedConst(v, type, 4)) : v \in 0..MaxMag, type \in {"Int", "Uint"}}
        \cup {Lit(Int32Const(5)), Lit(Constant(HostBool(TRUE), TBool)), Lit(StringConst)}
        \cup NotFolding

NoEval == [node |-> "none"]

EvInit == ev = NoEval

\* Eval of the slice expression Expr[From:To]
EvalSlice ==
    /\ ev = NoEval
    /\ \E Expr \in SliceOperands, From \in SliceBounds, To \in SliceBounds :
         ev' = [node |-> "Slice", Expr |-> Expr, From |-> From, To |-> To,
                out |-> SliceEval(Expr, From, To)]
    /\ UNCHANGED <<genVars, setVars, paramsVars, compVars, nativeVars, lowVars, parseVars, mpVars, pipeVars, offVars>>

\* Eval of the binary expression Left op Right
EvalBinary ==
    /\ ev = NoEval
    /\ \E Left \in BinaryOperands, Right \in BinaryOperands, op \in BinaryOps :
         ev' = [node |-> "Binary", Left |-> Left, Right |-> Right, Op |-> op,
                out |-> BinaryEval(Left, Right, op)]
    /\ UNCHANGED <<genVars, setVars, paramsVars, compVars, nativeVars, lowVars, parseVars, mpVars, pipeVars, offVars>>

\* Eval of the unary expression type Expr
EvalUnary ==
    /\ ev = NoEval
    /\ \E Expr \in UnaryOperands, type \in {"UnaryMinus", "UnaryNot"} :
         ev' = [node |-> "Unary", Expr |-> Expr, Type |-> type, out |-> UnaryEval(Expr, type)]
    /\ UNCHANGED <<genVars, setVars, paramsVars, compVars, nativeVars, lowVars, parseVars, mpVars, pipeVars, offVars>>

\* Eval of the index expression Expr[Index]
EvalIndex ==
    /\ ev = NoEval
    /\ \E Expr \in IndexOperands, Index \in IndexIndices :
         ev' = [node |-> "Index", Expr |-> Expr, Index |-> Index,
                out |-> IndexEval(Expr, Index)]
    /\ UNCHANGED <<genVars, setVars, paramsVars, compVars, nativeVars, lowVars, parseVars, mpVars, pipeVars, offVars>>

\* Eval of make(Type, Exprs...) by the Make node
EvalMake ==
    /\ ev = NoEval
    /\ \E Type \in MakeTypes, Exprs \in SeqsUpTo(MakeLengths, 2) :
         ev' = [node |-> "Make", fn |-> "Make.Eval", Type |-> Type, Exprs |-> Exprs,
                out |-> MakeEval(Type, Exprs)]
    /\ UNCHANGED <<genVars, setVars, paramsVars, compVars, nativeVars, lowVars, parseVars, mpVars, pipeVars, offVars>>

\* Eval of make(Type, Exprs...) by the builtin's makeEval
EvalMakeBuiltin ==
    /\ ev = NoEval
    /\ \E isRef \in BOOLEAN, Type \in MakeTypes, Exprs \in SeqsUpTo(MakeLengths, 2) :
         /\ ~isRef => Type = Unresolved
         /\ ev' = [node |-> "Make", fn |-> "makeEval", Type |-> Type, Exprs |-> Exprs,
                   out |-> makeEval(isRef, Type, Exprs)]
    /\ UNCHANGED <<genVars, setVars, paramsVars, compVars, nativeVars, lowVars, parseVars, mpVars, pipeVars, offVars>>

\* Eval of the call Ref(Exprs...)
EvalCall ==
    /\ ev = NoEval
    /\ \E pkgFound \in BOOLEAN, isFunction \in BOOLEAN, builtin \in {Nil, Unfoldable},
          Type \in CallTypes, Exprs \in SeqsUpTo(CallArgs, 2) :
         /\ (~pkgFound \/ isFunction \/ ~builtin.nil) => (Type = Unresolved /\ Exprs = << >>)
         /\ ~pkgFound => ~isFunction
         /\ (~pkgFound \/ isFunction) => builtin.nil
         /\ ev' = [node |-> "Call", pkgFound |-> pkgFound, isFunction |-> isFunction,
                   builtin |-> builtin, Type |-> Type, Exprs |-> Exprs,
                   out |-> CallEval(pkgFound, isFunction, builtin, Type, Exprs)]
    /\ UNCHANGED <<genVars, setVars, paramsVars, compVars, nativeVars, lowVars, parseVars, mpVars, pipeVars, offVars>>

\* The generator and environment as far as Assign.Eval changes them: the
\* names gen.NewVal minted a version for, in order, the constants handed to
\* gen.AddConstant, and the bindings of env.
AssignState(env) == [minted |-> << >>, pool |-> {}, env |-> env]

\* gen.NewVal(name, type, scope) followed by env.Set(lValue, &constVal)
AssignTo(st, name, constVal) ==
    [st EXCEPT !.minted = Append(st.minted, name),
               !.env = MapPut(st.env, name, constVal)]

\* gen.AddConstant(constVal)
AssignAddConstant(st, constVal) == [st EXCEPT !.pool = @ \cup {constVal}]

\* The loop over ast.LValues of a define (:=), from l-value idx on.
RECURSIVE AssignDefine(_, _, _, _)
AssignDefine(st, values, LValues, idx) ==
    IF idx > Len(LValues) THEN [st |-> st, err |-> ""]
    ELSE LET constVal == Constant(values[idx].ConstValue, TUndefined)
             st1 == AssignAddConstant(st, constVal)
         IN  IF ~LValues[idx].ref THEN [st |-> st1, err |-> "cannot assign"]
             ELSE AssignDefine(AssignTo(st1, LValues[idx].name, constVal),
                               values, LValues, idx + 1)

\* The loop over ast.LValues of an assignment (=), from l-value idx on.
RECURSIVE AssignStore(_, _, _, _)
AssignStore(st, values, LValues, idx) ==
    IF idx > Len(LValues) THEN [st |-> st, err |-> ""]
    ELSE IF ~LValues[idx].ref THEN [st |-> st, err |-> "cannot assign"]
    ELSE IF LValues[idx].name \notin DOMAIN st.env
    THEN [st |-> st, err |-> "undefined variable"]
    ELSE LET b == st.env[LValues[idx].name]
             constVal == Constant(values[idx].ConstValue, b.Type)
         IN  AssignStore(AssignTo(AssignAddConstant(st, constVal), LValues[idx].name, constVal),
                         values, LValues, idx + 1)

\* (ast *Assign) Eval: what it returns and the generator and environment
\* it leaves.
AssignEval(Exprs, LValues, Define, env) ==
    LET st == AssignState(env)
        bad == {i \in DOMAIN Exprs : Exprs[i].err # "" \/ ~Exprs[i].ok}
        first == CHOOSE i \in bad : \A j \in bad : i <= j
        values == [i \in DOMAIN Exprs |-> Exprs[i].val]
        arrType == [Type |-> "Array", Bits |-> 0, MinBits |-> 0, IsConcrete |-> TRUE,
                    ArraySize |-> Len(values)]
        r == IF Define THEN AssignDefine(st, values, LValues, 1)
             ELSE AssignStore(st, values, LValues, 1)
    IN  IF bad # {}
        THEN [out |-> Passed(Exprs[first], << >>), st |-> st]
        ELSE IF Len(LValues) # Len(values)
        THEN [out |-> Failed("assignment mismatch", << >>), st |-> st]
        ELSE IF r.err # "" THEN [out |-> Failed(r.err, << >>), st |-> r.st]
        ELSE [out |-> Folded(Constant(HostArray([i \in DOMAIN values |->
                                                   values[i].ConstValue.Val]), arrType),
                             << >>),
              st |-> r.st]

\* The right-hand sides and the l-values of an assignment: variable
\* references a and b and an expression that is not one.
AssignExprs == {Lit(Int32Const(5)), Lit(Int32Const(-3)), Unfoldable, Erring("undefined variable")}

AssignLValues == {[ref |-> TRUE, name |-> n] : n \in GenNames} \cup {[ref |-> FALSE, name |-> ""]}

\* The environments an assignment starts in: some of the names bound.
AssignEnvs == {[n \in bound |-> Int32Const(0)] : bound \in SUBSET GenNames}

\* Eval of the assignment LValues = Exprs or LValues := Exprs
EvalAssign ==
    /\ ev = NoEval
    /\ \E Exprs \in SeqsUpTo(AssignExprs, MaxLValues),
          LValues \in SeqsUpTo(AssignLValues, MaxLValues),
          Define \in BOOLEAN, env \in AssignEnvs :
         LET r == AssignEval(Exprs, LValues, Define, env)
         IN  ev' = [node |-> "Assign", Exprs |-> Exprs, LValues |-> LValues,
                    Define |-> Define, before |-> AssignState(env), after |-> r.st,
                    out |-> r.out]
    /\ UNCHANGED <<genVars, setVars, paramsVars, compVars, nativeVars, lowVars, parseVars, mpVars, pipeVars, offVars>>

EvNext ==
    \/ EvalSlice \/ EvalBinary \/ EvalUnary \/ EvalIndex
    \/ EvalMake \/ EvalMakeBuiltin \/ EvalCall \/ EvalAssign


(***************************************************************************)
(* circuit.Parse: the textual circuit format.  A file is a sequence of      *)
(* lines, a line the sequence of its fields, a field a byte string; the     *)
(* last line may lack its newline.                                          *)
(***************************************************************************)
\* strconv.Atoi(s): an optional sign and one or more decimal digits.
RECURSIVE DigitsValue(_, _)
DigitsValue(s, n) ==
    IF n = 0 THEN 0 ELSE 10 * DigitsValue(s, n - 1) + (s[n] - 48)

Atoi(s) ==
    LET signed == s # << >> /\ s[1] \in {43, 45}
        digits == IF signed THEN Tail(s) ELSE s
    IN  IF digits = << >> \/ \E i \in DOMAIN digits : digits[i] \notin 48..57
        THEN [err |-> "invalid syntax", n |-> 0]
        ELSE [err |-> "",
              n |-> (IF signed /\ s[1] = 45 THEN -1 ELSE 1) * DigitsValue(digits, Len(digits))]

\* The op strings "XOR", "AND" and "INV".
OpNames == {<<88, 79, 82>>, <<65, 78, 68>>, <<73, 78, 86>>}

\* readLine(r): the fields of the next non-blank line.  A last line without
\* newline makes ReadString return io.EOF, and readLine drops the line.
RECURSIVE readLine(_)
readLine(r) ==
    IF r.lines = << >> THEN [err |-> "EOF", line |-> << >>, r |-> r]
    ELSE IF Len(r.lines) = 1 /\ ~r.newline
    THEN [err |-> "EOF", line |-> << >>, r |-> [r EXCEPT !.lines = << >>]]
    ELSE IF Head(r.lines) = << >> THEN readLine([r EXCEPT !.lines = Tail(r.lines)])
    ELSE [err |-> "", line |-> Head(r.lines), r |-> [r EXCEPT !.lines = Tail(r.lines)]]

\* What Parse returns: the circuit, or nil and the error.
ParseError(err) == [err |-> err, circ |-> [nil |-> TRUE]]

\* The loops converting the n fields of line after position `at` to wire ids.
RECURSIVE WireIDs(_, _, _, _)
WireIDs(line, at, n, i) ==
    IF i >= n THEN [err |-> "", ids |-> << >>]
    ELSE LET v == Atoi(line[at + i + 1])
             rest == WireIDs(line, at, n, i + 1)
         IN  IF v.err # "" THEN [err |-> v.err, ids |-> << >>]
             ELSE IF rest.err # "" THEN rest
             ELSE [err |-> "", ids |-> <<v.n>> \o rest.ids]

\* The body of the gate loop for one line: the gate, or the error.
ParseGate(line) ==
    IF Len(line) < 3 THEN [err |-> "Invalid gate", gate |-> << >>]
    ELSE LET n1 == Atoi(line[1])
             n2 == Atoi(line[2])
         IN  IF n1.err # "" THEN [err |-> n1.err, gate |-> << >>]
             ELSE IF n2.err # "" THEN [err |-> n2.err, gate |-> << >>]
             ELSE IF 2 + n1.n + n2.n + 1 # Len(line) THEN [err |-> "Invalid gate", gate |-> << >>]
             ELSE LET inputs == WireIDs(line, 2, n1.n, 0)
                      outputs == WireIDs(line, 2 + n1.n, n2.n, 0)
                  IN  IF inputs.err # "" THEN [err |-> inputs.err, gate |-> << >>]
                      ELSE IF outputs.err # "" THEN [err |-> outputs.err, gate |-> << >>]
                      ELSE IF line[Len(line)] \notin OpNames
                      THEN [err |-> "Invalid operation", gate |-> << >>]
                      ELSE [err |-> "",
                            gate |-> <<[Inputs |-> inputs.ids, Outputs |-> outputs.ids,
                                        Op |-> line[Len(line)]]>>]

\* The gate loop: gates[gate] for every line up to io.EOF.
RECURSIVE ParseGates(_, _, _)
ParseGates(r, gate, gates) ==
    LET l == readLine(r)
        g == ParseGate(l.line)
    IN  IF l.err # "" THEN [err |-> "", gates |-> gates]
        ELSE IF g.err # "" THEN [err |-> g.err, gates |-> gates]
        ELSE ParseGates(l.r, gate + 1, MapPut(gates, gate, g.gate[1]))

\* Parse from the second line on.
ParseCounts(r, numGates, numWires) ==
    LET l == readLine(r)
        n1 == Atoi(l.line[1])
        n2 == Atoi(l.line[2])
        n3 == Atoi(l.line[3])
        gs == ParseGates(l.r, 0, EmptyMap)
    IN  IF l.err # "" THEN ParseError(l.err)
        ELSE IF Len(l.line) # 3 THEN ParseError("Invalid 2nd line")
        ELSE IF n1.err # "" THEN ParseError(n1.err)
        ELSE IF n2.err # "" THEN ParseError(n2.err)
        ELSE IF n3.err # "" THEN ParseError(n3.err)
        ELSE IF gs.err # "" THEN ParseError(gs.err)
        ELSE [err |-> "",
              circ |-> [nil |-> FALSE, NumGates |-> numGates, NumWires |-> numWires,
                        N1 |-> n1.n, N2 |-> n2.n, N3 |-> n3.n, Gates |-> gs.gates]]

\* Parse(in)
Parse(r) ==
    LET l == readLine(r)
        numGates == Atoi(l.line[1])
        numWires == Atoi(l.line[2])
    IN  IF l.err # "" THEN ParseError(l.err)
        ELSE IF Len(l.line) # 2 THEN ParseError("Invalid 1st line")
        ELSE IF numGates.err # "" THEN ParseError(numGates.err)
        ELSE IF numWires.err # "" THEN ParseError(numWires.err)
        ELSE ParseCounts(l.r, numGates.n, numWires.n)

\* The decimal field for the digit d, the field "x" and the field "OR".
Dec(d) == <<48 + d>>

FieldX == <<120>>

FieldOR == <<79, 82>>

\* First lines: NumGates NumWires.
FirstLines ==
    {<<Dec(g), Dec(3)>> : g \in 0..MaxGates} \cup {<<FieldX, Dec(3)>>, <<Dec(1)>>}

\* Second lines: N1 N2 N3.
SecondLines == {<<Dec(1), Dec(1), Dec(1)>>, <<Dec(1), FieldX, Dec(1)>>, <<Dec(1), Dec(1)>>}

\* Gate lines: two well-formed gates, a blank line, and lines with an unknown
\* op, a malformed wire id, a malformed count, a wrong field count, and too
\* few fields.
GateLines ==
    { <<Dec(2), Dec(1), Dec(0), Dec(1), Dec(2), <<88, 79, 82>> >>,
      <<Dec(1), Dec(1), Dec(0), Dec(1), <<73, 78, 86>> >>,
      << >>,
      <<Dec(2), Dec(1), Dec(0), Dec(1), Dec(2), FieldOR>>,
      <<Dec(1), Dec(1), FieldX, Dec(1), <<73, 78, 86>> >>,
      <<FieldX, Dec(1), Dec(0), Dec(1), <<73, 78, 86>> >>,
      <<Dec(2), Dec(1), Dec(0), Dec(1), <<65, 78, 68>> >>,
      <<Dec(1), Dec(1)>> }

NoParse == [called |-> FALSE]

ParseInit == parse = NoParse

\* Parse on a file of a first line, a second line and up to MaxGates further
\* lines, cut off after any number of lines, with or without the newline of
\* its last line.
ParseCall ==
    /\ parse = NoParse
    /\ \E first \in FirstLines, second \in SecondLines,
          gates \in SeqsUpTo(GateLines, MaxGates), newline \in BOOLEAN :
         \E k \in 0..2 + Len(gates) :
            LET in == [lines |-> SubSeq(<<first, second>> \o gates, 1, k),
                       newline |-> newline \/ k = 0]
            IN  parse' = [called |-> TRUE, in |-> in, out |-> Parse(in)]
    /\ UNCHANGED <<genVars, setVars, paramsVars, compVars, nativeVars, lowVars, evVars, mpVars, pipeVars, offVars>>

ParseNext == ParseCall

(***************************************************************************)
(* bmr.Player.offlinePhase, step 2.a: the random permutation bits lambda.   *)
(* An int64 is the sequence of its 64 bits, bit 0 first.                    *)
(***************************************************************************)
\* The width of int64.
Int64Bits == 64

\* int64(1) << n: the one bit moved up n places, lost when n reaches the width.
Shl1(n) == [i \in 1..Int64Bits |-> IF i = n + 1 THEN 1 ELSE 0]

\* The lowest bit of x that is set, Int64Bits + 1 when there is none.
LowestSet(x) ==
    IF \A i \in DOMAIN x : x[i] = 0 THEN Len(x) + 1
    ELSE CHOOSE i \in DOMAIN x : x[i] = 1 /\ \A j \in 1..(i - 1) : x[j] = 0

\* x - 1 in int64 arithmetic, which wraps around.
MinusOne(x) ==
    [i \in DOMAIN x |-> IF i < LowestSet(x) THEN 1 ELSE IF i = LowestSet(x) THEN 0 ELSE x[i]]

\* int64((1 << p.c.NumWires) - 1)
LambdaBound(n) == MinusOne(Shl1(n))

\* big.NewInt(x).Sign() for the int64 x.
SignOf(x) ==
    IF x[Int64Bits] = 1 THEN -1
    ELSE IF \E i \in DOMAIN x : x[i] = 1 THEN 1
    ELSE 0

\* rand.Int(rand.Reader, max): it panics when max <= 0, returns the
\* reader's error, or returns a number below max.
RandInt(max, readerFails) ==
    IF SignOf(max) <= 0 THEN "panic"
    ELSE IF readerFails THEN "error"
    ELSE "ok"

NoPhase == [called |-> FALSE]

OffInit == off = NoPhase

\* p.offlinePhase() up to the choice of lambda, for a circuit of NumWires wires
OfflinePhase ==
    /\ ~off.called
    /\ \E NumWires \in 0..MaxWires, readerFails \in BOOLEAN :
         off' = [called |-> TRUE, NumWires |-> NumWires, readerFails |-> readerFails,
                 bound |-> LambdaBound(NumWires),
                 lambda |-> RandInt(LambdaBound(NumWires), readerFails)]
    /\ UNCHANGED <<genVars, setVars, paramsVars, compVars, nativeVars, lowVars, evVars, parseVars, mpVars, pipeVars>>

OffNext == OfflinePhase

Init ==
    /\ GenInit /\ SetInit /\ ParamsInit /\ CompInit /\ NativeInit /\ LowInit /\ EvInit
    /\ ParseInit /\ MpInit /\ PipeInit /\ OffInit

SpecGen == Init /\ [][GenNext]_vars

SpecSet == Init /\ [][SetNext]_vars

SpecParams == Init /\ [][ParamsNext]_vars

SpecCompile == Init /\ [][CompNext]_vars

SpecNative == Init /\ [][NativeNext]_vars

\* Slices, folded and lowered.
SliceNext == EvalSlice \/ CircuitSlice

SpecSlice == Init /\ [][SliceNext]_vars

\* One instruction lowered by Program.Circuit.
LowerNext == CircuitCirc \/ CircuitOp

SpecLower == Init /\ [][LowerNext]_vars

SpecPipe == Init /\ [][PipeNext]_vars

SpecOffline == Init /\ [][OffNext]_vars

SpecEval == Init /\ [][EvNext]_vars

SpecParse == Init /\ [][ParseNext]_vars

SpecMpa == Init /\ [][MpNext]_vars

(***************************************************************************)
(* Properties of the generator.                                             *)
(***************************************************************************)
Minting == {"UndefVar", "AnonVar", "NewVar"}

Triple(v) == <<v.Name, v.Scope, v.Version>>

\* The calls before the i-th that satisfy P.
Earlier(i, P(_)) == {j \in 1..(i - 1) : P(calls[j])}

IsAnonCall(c) == c.op \in {"UndefVar", "AnonVar"}

IsAnonVarCall(c) == c.op = "AnonVar"

C2_NewVarNextVersion ==
    \A i \in 1..Len(calls) :
        calls[i].op = "NewVar" =>
            LET SamePair(c) == /\ c.op = "NewVar"
                               /\ c.name = calls[i].name
                               /\ c.scope = calls[i].scope
            IN  /\ calls[i].ret.Name = calls[i].name
                /\ calls[i].ret.Scope = calls[i].scope
                /\ calls[i].ret.Version = Cardinality(Earlier(i, SamePair))

\* The second NewVar of a pair returned Version 1 although a NewVar of the
\* same name in another scope and an anonymous variable came in between.
C2_Witness ==
    \E i, j, k, l \in 1..Len(calls) :
        /\ i < j /\ j < k /\ k < l
        /\ calls[i].op = "NewVar" /\ calls[l].op = "NewVar"
        /\ calls[i].name = calls[l].name /\ calls[i].scope = calls[l].scope
        /\ calls[j].op = "NewVar" /\ calls[j].name = calls[i].name
        /\ calls[j].scope # calls[i].scope
        /\ calls[k].op \in {"AnonVar", "UndefVar"}
        /\ calls[l].ret.Version = 1

\* C3 as stated: any two UndefVar calls return equal variables, and UndefVar
\* does not advance the version the next AnonVar call returns.
C3_UndefVarCanonical ==
    /\ \A i, j \in 1..Len(calls) :
         (calls[i].op = "UndefVar" /\ calls[j].op = "UndefVar")
             => calls[i].ret = calls[j].ret
    /\ \A i \in 1..Len(calls) :
         calls[i].op = "AnonVar"
             => calls[i].ret.Version = Cardinality(Earlier(i, IsAnonVarCall))

\* C3 amended: UndefVar mints a fresh anonymous variable of the undefined
\* type: it is named %_ in scope 0 with type Undefined of 0 bits, and its
\* Version is the number of AnonVar and UndefVar calls made before it; AnonVar
\* versions count the earlier UndefVar calls too.
C3_UndefVarFresh ==
    \A i \in 1..Len(calls) :
        /\ calls[i].op = "UndefVar" =>
             calls[i].ret = [Name |-> anon, Scope |-> 0,
                             Version |-> Cardinality(Earlier(i, IsAnonCall)),
                             Type |-> UndefinedInfo]
        /\ calls[i].op = "AnonVar" =>
             calls[i].ret.Version = Cardinality(Earlier(i, IsAnonCall))

\* UndefVar, AnonVar, UndefVar, AnonVar were called in this order.
C3_Witness ==
    \E i, j, k, l \in 1..Len(calls) :
        /\ i < j /\ j < k /\ k < l
        /\ calls[i].op = "UndefVar" /\ calls[j].op = "AnonVar"
        /\ calls[k].op = "UndefVar" /\ calls[l].op = "AnonVar"

IsAddOf(n, c) == c.op = "AddConstant" /\ c.arg.Name = n

\* C4: the constant pool holds, under each name ever added, the first variable
\* added under that name: a later AddConstant of that name changes nothing.
C4_AddConstantIdempotent ==
    /\ DOMAIN constants =
         {calls[i].arg.Name : i \in {j \in 1..Len(calls) : calls[j].op = "AddConstant"}}
    /\ \A i \in 1..Len(calls) :
         calls[i].op = "AddConstant" =>
            LET SameName(c) == IsAddOf(calls[i].arg.Name, c)
            IN  Earlier(i, SameName) = {} =>
                    constants[calls[i].arg.Name] = calls[i].arg

\* A different variable was added under a name the pool already held.
C4_Witness ==
    \E i, j \in 1..Len(calls) :
        /\ i < j
        /\ calls[i].op = "AddConstant" /\ calls[j].op = "AddConstant"
        /\ calls[i].arg.Name = calls[j].arg.Name
        /\ calls[i].arg # calls[j].arg
        /\ constants[calls[i].arg.Name] = calls[i].arg

(***************************************************************************)
(* Properties of Set.                                                       *)
(***************************************************************************)
LastOp == setLog[Len(setLog)]

\* What handle h's set holds now.
Content(h) == heap[hnd[h]]

\* The last two operations were h.Add(a) then h.Add(b) on one set.
TwoAdds ==
    /\ Len(setLog) = 2
    /\ setLog[1].op = "Add" /\ setLog[2].op = "Add"
    /\ setLog[1].h = setLog[2].h

\* S with a then b put in by hand: the later one wins a shared ID.
PutBoth(S, a, b) ==
    [k \in (DOMAIN S) \cup {a.ID, b.ID} |->
        IF k = b.ID THEN b ELSE IF k = a.ID THEN a ELSE S[k]]

\* C5 as stated: after S.Add(a); S.Add(b) the set holds what S.Add(b);
\* S.Add(a) would have left in it, also when a and b carry the same ID.
C5_AddCommutes ==
    TwoAdds =>
        LET S0 == setLog[1].pre[setLog[1].h]
            a  == setLog[1].v
            b  == setLog[2].v
        IN  Content(setLog[2].h) = SetAdd(SetAdd(S0, b), a)

\* C5 amended: after S.Add(a); S.Add(b) the set holds the old entries of S,
\* a under a.ID and b under b.ID, the later Add winning a shared ID; this is
\* what S.Add(b); S.Add(a) leaves whenever a and b carry different IDs or are
\* the same variable.
C5_AddCommutesDistinct ==
    TwoAdds =>
        LET S0 == setLog[1].pre[setLog[1].h]
            a  == setLog[1].v
            b  == setLog[2].v
        IN  /\ Content(setLog[2].h) = PutBoth(S0, a, b)
            /\ (a.ID # b.ID \/ a = b)
                   => Content(setLog[2].h) = SetAdd(SetAdd(S0, b), a)

\* Two different variables with one ID were added one after the other, and
\* so were two variables with different IDs.
C5_Witness ==
    /\ TwoAdds
    /\ setLog[1].v.ID = setLog[2].v.ID
    /\ setLog[1].v # setLog[2].v
    /\ Content(setLog[2].h)[setLog[2].v.ID] = setLog[2].v

\* C6: after A.Subtract(B), A holds exactly the entries of the old A whose ID
\* is not in B; A.Subtract(A) leaves A empty.
C6_Subtract ==
    (setLog # << >> /\ LastOp.op = "Subtract") =>
        LET A == LastOp.pre[LastOp.h]
            B == LastOp.pre[LastOp.o]
        IN  /\ Content(LastOp.h) = [k \in (DOMAIN A) \ (DOMAIN B) |-> A[k]]
            /\ LastOp.h = LastOp.o => Content(LastOp.h) = EmptyMap

\* A set of two members was subtracted from itself.
C6_Witness ==
    /\ setLog # << >>
    /\ LastOp.op = "Subtract"
    /\ LastOp.h = LastOp.o
    /\ Cardinality(DOMAIN LastOp.pre[LastOp.h]) = 2
    /\ Content(LastOp.h) = EmptyMap

\* C7: Copy returns a set holding what the original holds, and afterwards an
\* Add, Remove or Subtract on the copy leaves the original as it was, and one
\* on the original leaves the copy as it was.
C7_CopyIndependent ==
    setLog # << >> =>
        /\ LastOp.op = "Copy" =>
              /\ Content(LastOp.o) = LastOp.pre[LastOp.h]
              /\ Content(LastOp.h) = LastOp.pre[LastOp.h]
        /\ LastOp.op \in {"Add", "Remove", "Subtract"} =>
              \A p \in copies :
                 /\ LastOp.h = p[1] => Content(p[2]) = LastOp.pre[p[2]]
                 /\ LastOp.h = p[2] => Content(p[1]) = LastOp.pre[p[1]]

\* A member was added to a copy that its original does not hold, and the
\* original is not empty.
C7_Witness ==
    /\ setLog # << >>
    /\ LastOp.op = "Add"
    /\ \E p \in copies :
         /\ LastOp.h = p[2]
         /\ LastOp.v.ID \notin DOMAIN Content(p[1])
         /\ LastOp.v.ID \in DOMAIN Content(p[2])
         /\ Content(p[1]) # EmptyMap

(***************************************************************************)
(* Properties of Params.                                                    *)
(***************************************************************************)
\* The sinks the fields hold now.
Held == {params[f] : f \in DOMAIN params} \ {0}

\* C8: after Close every sink field is nil and every sink that was held has
\* been closed exactly once; no sink is ever closed a second time, however
\* often Close is called.
C8_CloseReleasesAll ==
    /\ \A s \in DOMAIN closed : closed[s] = IF s \in Held THEN 0 ELSE 1
    /\ paramsLast = "Close" => \A f \in DOMAIN params : params[f] = 0

\* Five sinks have been opened over several rounds and a Close has released
\* the last of them.
C8_Witness ==
    /\ paramsLast = "Close"
    /\ Len(closed) = 5
    /\ \A s \in DOMAIN closed : closed[s] = 1

(***************************************************************************)
(* Properties of compilation.                                               *)
(***************************************************************************)
BothLowered == runs[1].pc = "lowered" /\ runs[2].pc = "lowered"

\* The events of one kind in a compilation's trace, in order.
EventsOf(r, kind) == SelectSeq(runs[r].trace, LAMBDA e : e.ev = kind)

\* The bindings of constants, which come first in a trace.
ConstBinds(r) == SubSeq(EventsOf(r, "bind"), 1, Cardinality(DOMAIN prog.Constants))

\* C9: two compilations of one program bind the same wires and emit the same
\* gates in the same order, whatever order the Constants map is iterated in:
\* the constants are bound in ascending order of name and the steps are
\* lowered in prog.Steps order.
C9_Deterministic ==
    BothLowered =>
        /\ runs[1].trace = runs[2].trace
        /\ runs[1].gates = runs[2].gates
        /\ runs[1].wires = runs[2].wires
        /\ runs[1].err = runs[2].err
        /\ \A r \in {1, 2} :
             /\ \A i, j \in DOMAIN ConstBinds(r) :
                   i < j => Compare(ConstBinds(r)[i].name, ConstBinds(r)[j].name) = -1
             /\ {ConstBinds(r)[i].name : i \in DOMAIN ConstBinds(r)} = DOMAIN prog.Constants
             /\ EventsOf(r, "step") =
                   [i \in 1..Len(prog.Steps) |-> [ev |-> "step", index |-> i]]

\* A program of three constants and two steps has been compiled twice, the
\* map having been iterated in different orders, and gates were emitted.
C9_Witness ==
    /\ BothLowered
    /\ Cardinality(DOMAIN prog.Constants) = 3
    /\ Len(prog.Steps) = 2
    /\ runs[1].order # runs[2].order
    /\ runs[1].gates # << >>

(***************************************************************************)
(* Properties of the native builtin.                                        *)
(***************************************************************************)
\* A .circ circuit was loaded and the call reached the argument checks.
CircLoaded ==
    /\ nat.fn # "none"
    /\ nat.parsed
    /\ nat.fn = "nativeSSA" => nat.named

\* C10: a call to native with a .circ circuit returns an error and adds no
\* Circ instruction to the block, both when fewer and when more arguments are
\* supplied than the circuit has inputs.
C10_ArgCountIsError ==
    (CircLoaded /\ Len(nat.args) # Len(nat.inputs)) =>
        /\ nat.outcome \notin {"ok", "panic"}
        /\ block = << >>

\* The call has as many arguments as the circuit has inputs.
RightCount == CircLoaded /\ Len(nat.args) = Len(nat.inputs)

\* Argument i is wider than input i.
Wider(i) == nat.args[i].Type.Bits > nat.inputs[i].Size

\* Argument i is narrower than input i.
Narrower(i) == nat.args[i].Type.Bits < nat.inputs[i].Size

\* C11: in a native .circ call with the right number of arguments, an
\* argument wider than its input is an error, a narrower argument is an error
\* unless it is a compile-time constant, and a call whose only mismatches are
\* narrower constants is accepted.
C11_WidthMismatch ==
    RightCount =>
        LET idx == 1..Len(nat.inputs)
            bad == \E i \in idx : Wider(i) \/ (Narrower(i) /\ ~nat.args[i].Const)
        IN  IF bad THEN nat.outcome = "error: invalid argument" /\ block = << >>
            ELSE nat.outcome = "ok" /\ Len(block) = 1

(***************************************************************************)
(* Properties of slices.                                                    *)
(***************************************************************************)
\* Slice.Eval was given a constant int32 or array operand and int32 bounds.
FoldedSlice ==
    /\ ev.node = "Slice"
    /\ ev.Expr.ok /\ ev.Expr.val.ConstValue.Kind \in {"int32", "array"}
    /\ ~ev.From.nil /\ ev.From.ok /\ ev.From.val.ConstValue.Kind = "int32"
    /\ ~ev.To.nil /\ ev.To.ok /\ ev.To.val.ConstValue.Kind = "int32"

\* The operand's width, or its element count.
FoldedWidth ==
    IF ev.Expr.val.ConstValue.Kind = "int32" THEN Int32Bits
    ELSE Len(ev.Expr.val.ConstValue.Elems)

\* Program.Circuit was given a Slice instruction with int32 constant bounds.
LoweredSlice ==
    /\ low.op = "Slice"
    /\ low.instr.In[2].Const /\ low.instr.In[2].ConstKind = "int32"
    /\ low.instr.In[3].Const /\ low.instr.In[3].ConstKind = "int32"

InBounds(from, to, width) == 0 <= from /\ from < to /\ to <= width

IsError(err) == err \notin {"", "panic"}

\* C12: a slice [from:to] is accepted only when 0 <= from < to <= bits: both
\* Slice.Eval and the lowering of the Slice instruction return an error, not a
\* value and not a panic, when to exceeds the operand's width or element
\* count, or from is negative or not below to.
C12_SliceBoundsChecked ==
    /\ (/\ FoldedSlice
        /\ ~InBounds(ev.From.val.ConstValue.Val, ev.To.val.ConstValue.Val, FoldedWidth)) =>
            IsError(ev.out.err) /\ ~ev.out.ok
    /\ (/\ LoweredSlice
        /\ ~InBounds(low.instr.In[2].ConstValue, low.instr.In[3].ConstValue,
                     low.instr.In[1].Type.Bits)) =>
            IsError(low.st.err)

(***************************************************************************)
(* Properties of circuit.Parse.                                             *)
(***************************************************************************)
NonBlank(line) == line # << >>

\* The non-blank lines of the file, and those that end in a newline.
FileLines == SelectSeq(parse.in.lines, NonBlank)

CompleteLines ==
    IF parse.in.newline \/ parse.in.lines = << >> THEN FileLines
    ELSE SelectSeq(SubSeq(parse.in.lines, 1, Len(parse.in.lines) - 1), NonBlank)

\* The first line declares a number of gates.
Declares ==
    /\ Len(FileLines) >= 1
    /\ Len(FileLines[1]) = 2
    /\ Atoi(FileLines[1][1]).err = ""

\* The file ends before the declared number of gates.
EndsEarly ==
    \/ Len(CompleteLines) < 2
    \/ Declares /\ Len(CompleteLines) - 2 < Atoi(FileLines[1][1]).n

\* A count or wire id of the file is not an integer.
BadInteger ==
    \E i \in DOMAIN FileLines :
        \E j \in DOMAIN FileLines[i] :
            /\ i > 2 => j < Len(FileLines[i])
            /\ Atoi(FileLines[i][j]).err # ""

\* A gate's op is not XOR, AND or INV.
BadOp ==
    \E i \in DOMAIN FileLines :
        i > 2 /\ FileLines[i][Len(FileLines[i])] \notin OpNames

\* C13: Parse returns an error and no circuit when the input ends before the
\* declared number of gates has been read (a last gate line without newline
\* included), when a count or wire id is not an integer, or when a gate's op
\* is not XOR, AND or INV; and when Parse succeeds the number of parsed gates
\* equals the declared NumGates.
C13_ParseRejects ==
    parse.called =>
        /\ (EndsEarly \/ BadInteger \/ BadOp) =>
               parse.out.err # "" /\ parse.out.circ.nil
        /\ parse.out.err = "" =>
               Cardinality(DOMAIN parse.out.circ.Gates) = parse.out.circ.NumGates

(***************************************************************************)
(* Properties of mpa.Int.                                                   *)
(***************************************************************************)
\* C14: after And, Or, Xor, Lsh or Rsh the result holds the two's-complement
\* reading of its low `bits` bits: -2^(bits-1) <= v < 2^(bits-1), and v is
\* congruent modulo 2^bits to the big-integer result of the operation.
C14_TwosComplement ==
    (mp.op \in {"And", "Or", "Xor", "Lsh", "Rsh"} /\ ~mp.z.panic) =>
        /\ -(2 ^ (mp.z.bits - 1)) <= mp.z.values
        /\ mp.z.values < 2 ^ (mp.z.bits - 1)
        /\ (mp.z.values - mp.host) % (2 ^ mp.z.bits) = 0

(***************************************************************************)
(* Properties of Binary.Eval.                                               *)
(***************************************************************************)
\* Binary.Eval was given two folded multi-precision integer constants.
TwoInts ==
    /\ ev.node = "Binary"
    /\ ev.Left.ok /\ ev.Left.val.ConstValue.Kind = "mpa"
    /\ ev.Right.ok /\ ev.Right.val.ConstValue.Kind = "mpa"

\* The wider of the two operands.
WiderOperand ==
    IF ev.Left.val.ConstValue.Bits > ev.Right.val.ConstValue.Bits
    THEN ev.Left.val ELSE ev.Right.val

\* C15: folding Add, Sub, Mul, Div, Mod, Or or Lshift of two multi-precision
\* constants of different widths yields a constant with the type of the wider
\* operand, be it the left or the right one, and with the mpa width
\* max(x.bits, y.bits).
C15_WidensToWider ==
    (/\ TwoInts
     /\ ev.Left.val.ConstValue.Bits # ev.Right.val.ConstValue.Bits
     /\ ev.Op \in {"BinaryAdd", "BinarySub", "BinaryMul", "BinaryDiv", "BinaryMod",
                   "BinaryBor", "BinaryLshift"}
     /\ ev.out.err # "panic") =>
        /\ ev.out.ok
        /\ ev.out.val.Type = WiderOperand.Type
        /\ ev.out.val.ConstValue.Bits = WiderOperand.ConstValue.Bits

\* C16: for two multi-precision integer constants every integer binary
\* operator (add, sub, mul, div, mod, the six comparisons, the two shifts,
\* bitwise and, or, xor and clear) is folded: folded = true and no error.
C16_IntegerOpsFold ==
    (TwoInts /\ ev.Op \in IntegerOps /\ ev.out.err # "panic") =>
        ev.out.ok /\ ev.out.err = ""

(***************************************************************************)
(* Properties shared by the Eval methods.                                   *)
(***************************************************************************)
\* The sub-expressions of the node, in the order Eval evaluates them, with
\* their labels; absent ones left out.
SubExprs ==
    CASE ev.node = "Binary" -> <<[lbl |-> "Left", e |-> ev.Left], [lbl |-> "Right", e |-> ev.Right]>>
      [] ev.node = "Unary"  -> <<[lbl |-> "Expr", e |-> ev.Expr]>>
      [] ev.node = "Index"  -> <<[lbl |-> "Expr", e |-> ev.Expr], [lbl |-> "Index", e |-> ev.Index]>>
      [] ev.node = "Slice"  ->
            <<[lbl |-> "Expr", e |-> ev.Expr]>>
                \o (IF ev.From.nil THEN << >> ELSE <<[lbl |-> "From", e |-> ev.From]>>)
                \o (IF ev.To.nil THEN << >> ELSE <<[lbl |-> "To", e |-> ev.To]>>)
      [] OTHER -> << >>

\* Sub-expression i is the first one that does not fold, and Eval reaches it:
\* a slice's From before it folded to an integer.
FirstNotFolding(i) ==
    /\ i \in DOMAIN SubExprs
    /\ ~SubExprs[i].e.ok
    /\ \A j \in 1..i - 1 :
          /\ SubExprs[j].e.ok
          /\ SubExprs[j].lbl = "From" => IntVal(SubExprs[j].e.val).err = ""

\* C17: when a sub-expression of a Binary, Unary, Slice or Index node is
\* unfoldable, Eval returns (Undefined, folded = false, no error) and evaluates
\* no later operand; when it returns an error, Eval returns that error with no
\* value.
C17_NotFoldingPropagates ==
    \A i \in 1..3 :
        FirstNotFolding(i) =>
            /\ ev.out.val = Undefined
            /\ ~ev.out.ok
            /\ ev.out.err = SubExprs[i].e.err
            /\ ev.out.seen = [j \in 1..i |-> SubExprs[j].lbl]

\* A slice whose From does not fold after its operand did, with a To that
\* would have returned an error.
C17_Witness ==
    /\ ev.node = "Slice"
    /\ ev.Expr.ok
    /\ ev.From = Unfoldable
    /\ ev.To = Erring("undefined variable")
    /\ ev.out = Ret3(Undefined, FALSE, "", <<"Expr", "From">>)

(***************************************************************************)
(* Properties of make.                                                      *)
(***************************************************************************)
\* make was given a resolved type and one length argument.
MadeOf(ti, n) ==
    /\ ev.node = "Make"
    /\ ev.Type.err = "" /\ ti = ev.Type.ti
    /\ Len(ev.Exprs) = 1 /\ n = ev.Exprs[1]

\* The types.Info make returned.
MadeType == IF ev.fn = "makeEval" THEN ev.out.val.Ref ELSE ev.out.val.ConstValue.Ref

\* n folds to an integer constant.
IntegerConstant(n) == n.ok /\ n.val.ConstValue.Kind \in {"int32", "mpa"}

\* C18: make(T, n) folds only for a non-array type T of indeterminate width
\* (Bits = 0) and an integer constant n, and then yields a type with
\* IsConcrete = true and Bits = n; for a T that has a width, and for an n that
\* is not a constant or not an integer, it returns an error.
C18_MakeFolds ==
    \A t \in MakeTypes, n \in MakeLengths :
        MadeOf(t.ti, n) =>
            /\ ev.out.ok =>
                  /\ t.ti.Type # "Array" /\ t.ti.Bits = 0 /\ IntegerConstant(n)
                  /\ MadeType.IsConcrete /\ MadeType.Bits = n.val.ConstValue.Val
            /\ t.ti.Bits # 0 => IsError(ev.out.err)
            /\ (t.ti.Bits = 0 /\ t.ti.Type # "Array" /\ ~IntegerConstant(n)) =>
                  IsError(ev.out.err)

(***************************************************************************)
(* Properties of casts.                                                     *)
(***************************************************************************)
\* Call.Eval was given an Int or Uint type name and one folded Int or Uint
\* constant.
IsCast ==
    /\ ev.node = "Call"
    /\ ev.pkgFound /\ ~ev.isFunction /\ ev.builtin.nil
    /\ ev.Type.err = "" /\ ev.Type.ti.Type \in {"Int", "Uint"}
    /\ Len(ev.Exprs) = 1 /\ ev.Exprs[1].ok
    /\ ev.Exprs[1].val.Type.Type \in {"Int", "Uint"}

\* C19: casting a folded Int/Uint constant with an Int/Uint type name yields a
\* folded constant with the same value and a concrete type with
\* MinBits = min(source MinBits, Bits) <= Bits; a non-concrete target takes the
\* source's Bits; hash code and equality class of the value are unchanged.
C19_CastKeepsValue ==
    IsCast =>
        LET src == ev.Exprs[1].val
            target == ev.Type.ti
            cast == ev.out.val
        IN  /\ ev.out.ok /\ ev.out.err = ""
            /\ cast.Const /\ cast.ConstValue = src.ConstValue
            /\ cast.Type.Type = target.Type
            /\ cast.Type.IsConcrete
            /\ cast.Type.Bits = (IF target.IsConcrete THEN target.Bits ELSE src.Type.Bits)
            /\ cast.Type.MinBits <= cast.Type.Bits
            /\ cast.Type.MinBits =
                   (IF src.Type.MinBits < cast.Type.Bits THEN src.Type.MinBits
                    ELSE cast.Type.Bits)
            /\ HashCode(cast) = HashCode(src) /\ Equal(src, cast)

\* The constant 5 (MinBits 4) of a 4-bit Uint cast to the 2-bit Int: the type
\* narrows, MinBits with it, the value stays.
C19_Witness ==
    /\ IsCast
    /\ ev.Exprs[1].val = TypedConst(5, "Uint", 4)
    /\ ev.Type.ti = Sized("Int", 2)
    /\ ev.out.ok
    /\ ev.out.val.Type = [Type |-> "Int", Bits |-> 2, MinBits |-> 2, IsConcrete |-> TRUE]
    /\ ev.out.val.ConstValue.Val = 5

(***************************************************************************)
(* C20: the output wires of the Ret instructions.                           *)
(***************************************************************************)

\* Compilation r has run Program.Circuit without an error.
Lowered(r) == runs[r].pc = "lowered" /\ runs[r].err = ""

\* The operands of the program's Ret instructions, in step and operand order.
RECURSIVE RetOperands(_)
RetOperands(steps) ==
    IF steps = << >> THEN << >>
    ELSE (IF Head(steps).Op = "Ret" THEN Head(steps).In ELSE << >>)
         \o RetOperands(Tail(steps))

\* The wires bound to a list of operands at the end of compilation r, bit 0
\* first.
RECURSIVE BoundWires(_, _)
BoundWires(r, operands) ==
    IF operands = << >> THEN << >>
    ELSE runs[r].wires[VarString(Head(operands))] \o BoundWires(r, Tail(operands))

\* No step of the program rebinds a variable.
NoMov == \A i \in DOMAIN prog.Steps : prog.Steps[i].Op # "Mov"

\* The wires bound to any name in compilation r, and the two constant wires.
ValueWires(r) ==
    {ZeroWire, OneWire} \cup
    UNION { {runs[r].wires[n][k] : k \in DOMAIN runs[r].wires[n]} : n \in DOMAIN runs[r].wires }

LoweredCirc == low.op = "Circ" /\ low.st.err = ""

\* Width of the first k inputs of the nested circuit.
RECURSIVE InputsWidth(_, _)
InputsWidth(inputs, k) ==
    IF k = 0 THEN 0 ELSE InputsWidth(inputs, k - 1) + inputs[k].Size

\* The wire nested index i stands for when i is below the inputs' width:
\* the wire of the argument holding that bit, or ZERO beyond the wires bound
\* to the argument.
ArgumentWire(i) ==
    LET inputs == low.instr.Circ.Inputs
        idx == CHOOSE k \in DOMAIN inputs :
                   InputsWidth(inputs, k - 1) <= i /\ i < InputsWidth(inputs, k)
        bit == i - InputsWidth(inputs, idx - 1)
        w == low.st.wires[VarString(low.instr.In[idx])]
    IN  IF bit < Len(w) THEN w[bit + 1] ELSE ZeroWire

\* The wire nested index i stands for when i is one of the last indices:
\* the wire of the result holding that bit.
ResultWire(i) ==
    LET outs == low.instr.Circ.Outputs
        j == i - (low.instr.Circ.NumWires - InputsWidth(outs, Len(outs)))
        idx == CHOOSE k \in DOMAIN outs :
                   InputsWidth(outs, k - 1) <= j /\ j < InputsWidth(outs, k)
    IN  low.st.wires[VarString(low.instr.Ret[idx])][j - InputsWidth(outs, idx - 1) + 1]

\* The nested wire indices of gate k and the wires the parent's gate has in
\* their places.
Rebased(k) ==
    LET gate == low.instr.Circ.Gates[k]
        g == low.st.gates[k]
    IN  {<<gate.Input0, g.in0>>, <<gate.Output, g.out>>}
            \cup (IF gate.Op = "INV" THEN {} ELSE {<<gate.Input1, g.in1>>})

\* The wires bound to a name after the lowering, and the constant wires.
BoundOrShared ==
    {ZeroWire, OneWire, NilWire} \cup
    UNION { {low.st.wires[n][k] : k \in DOMAIN low.st.wires[n]} : n \in DOMAIN low.st.wires }

\* C21: lowering a Circ instruction appends one gate per gate of the nested
\* circuit, in its order and with its operation; a nested wire index below
\* the inputs' width stands for the argument wire of that bit (ZERO where the
\* argument is narrower than the input), one of the last indices for the
\* result wire of that bit, and every index in between for a new wire of its
\* own.
C21_NestedGatesRebased ==
    LoweredCirc =>
        LET circ == low.instr.Circ
            nin == InputsWidth(circ.Inputs, Len(circ.Inputs))
            nout == InputsWidth(circ.Outputs, Len(circ.Outputs))
            pairs == UNION {Rebased(k) : k \in DOMAIN circ.Gates}
        IN  /\ Len(low.st.gates) = Len(low.st0.gates) + Len(circ.Gates)
            /\ \A k \in DOMAIN circ.Gates : low.st.gates[k].op = circ.Gates[k].Op
            /\ \A p \in pairs :
                  IF p[1] < nin THEN p[2] = ArgumentWire(p[1])
                  ELSE IF p[1] >= circ.NumWires - nout THEN p[2] = ResultWire(p[1])
                  ELSE p[2] \notin BoundOrShared
            /\ \A p, q \in pairs :
                  (p[1] >= nin /\ q[1] >= nin) => (p[1] = q[1] <=> p[2] = q[2])

\* A nested circuit of two inputs, two intermediate wires and two gates, the
\* second argument a one-wire constant for a two-bit input: the parent gains
\* two gates, one reading the ZERO padding and one an intermediate wire.
C21_Witness ==
    /\ LoweredCirc
    /\ Len(low.instr.Circ.Inputs) = 2
    /\ low.instr.In[2] = CircArgConst(1, 2)
    /\ low.instr.Circ.NumWires = 9
    /\ Len(low.instr.Circ.Gates) = 2
    /\ Len(low.st.gates) = 2
    /\ low.st.gates[1].in0 = ZeroWire
    /\ low.st.gates[2].in0 \notin BoundOrShared
    /\ low.st.gates[2].op = "INV"

(***************************************************************************)
(* Properties of CompileCircuit.                                            *)
(***************************************************************************)

\* The place of a callee in the fixed order of CompileCircuit.
Rank(name) ==
    CASE name = "NewCompiler" -> 0
      [] name = "DefineConstants" -> 1
      [] name = "Circuit" -> 2
      [] name = "Prune" -> 3
      [] name = "Compile" -> 4
      [] name \in {"Marshal", "MarshalBristol"} -> 5
      [] name = "Dot" -> 6

\* The callees called so far.
CalledSoFar == {pipe.log[i] : i \in DOMAIN pipe.log}

\* C22: the calls of CompileCircuit follow the order DefineConstants,
\* Circuit, Prune, Compile, serialization, each at most once; Prune is
\* called only when OptPruneGates is set, only after Circuit has returned
\* without error, and once Compile has been called Prune has been called
\* iff OptPruneGates is set; after an error of DefineConstants or Circuit
\* there is no Prune, no Compile and no write to CircOut or CircDotOut.
C22_StepOrder ==
    pipe.pc # "idle" =>
        /\ \A i, j \in DOMAIN pipe.log : i < j => Rank(pipe.log[i]) < Rank(pipe.log[j])
        /\ "Prune" \in CalledSoFar =>
              /\ pipe.params.OptPruneGates
              /\ "Circuit" \in CalledSoFar /\ pipe.err # "Circuit"
        /\ "Compile" \in CalledSoFar =>
              /\ "Circuit" \in CalledSoFar
              /\ "Prune" \in CalledSoFar <=> pipe.params.OptPruneGates
        /\ pipe.err \in {"DefineConstants", "Circuit"} =>
              /\ CalledSoFar \cap {"Prune", "Compile", "Marshal", "MarshalBristol", "Dot"} = {}
              /\ pipe.written = {}
              /\ ~pipe.circ

\* A compilation with pruning and both sinks that returned its circuit: all
\* seven calls, Prune between Circuit and Compile.
C22_Witness ==
    /\ pipe.pc = "returned" /\ pipe.circ
    /\ pipe.params.OptPruneGates
    /\ pipe.log = <<"NewCompiler", "DefineConstants", "Circuit", "Prune", "Compile",
                    "Marshal", "Dot">>

\* CompileCircuit has returned, having compiled the circuit, with a
\* CircFormat other than "mpclc" and "bristol".
OtherFormat ==
    /\ pipe.pc = "returned"
    /\ "Compile" \in CalledSoFar
    /\ pipe.params.CircFormat \notin {"mpclc", "bristol"}

\* C23 as stated: for every other CircFormat CompileCircuit returns the
\* 'unsupported circuit format' error and no circuit, with or without a
\* CircOut sink.
C23_OtherFormatsRejected ==
    OtherFormat => pipe.err = "unsupported circuit format" /\ ~pipe.circ

(***************************************************************************)
(* Properties of DefineConstants.                                           *)
(***************************************************************************)

\* C24: after DefineConstants every constant of the program has Type.Bits
\* wires bound to its name, each the ZERO or the ONE wire, wire i being ONE
\* iff bit i of the constant is set.
C24_ConstantWidth ==
    \A r \in {1, 2} :
        runs[r].pc \in {"defined", "lowered"} =>
            \A k \in DOMAIN prog.Constants :
                LET c == prog.Constants[k]
                    w == runs[r].wires[VarString(c)]
                IN  /\ Len(w) = c.Type.Bits
                    /\ \A bit \in DOMAIN w :
                          w[bit] = (IF VarBit(c, bit - 1) THEN OneWire ELSE ZeroWire)

(***************************************************************************)
(* Properties of errors in Program.Circuit.                                 *)
(***************************************************************************)

\* Program.Circuit reached prog.Wires for the result of an arithmetic or
\* bit-test instruction, and prog.Wires failed.
OutputWiresFailed ==
    /\ low.op \in {"Iadd", "Isub", "Bts", "Btc"}
    /\ low.instr.Out.Type.Bits = 0
    /\ low.op \in {"Bts", "Btc"} => SliceIndex(low.instr, 2).err = ""

\* C25: when prog.Wires fails for the result of an instruction, Bts and Btc
\* as well as Iadd and Isub, Program.Circuit returns that error, has added
\* no gate and has not started the next step.
C25_OutputWiresErrorFatal ==
    OutputWiresFailed =>
        /\ low.st.err = "size not set"
        /\ low.st.gates = << >>
        /\ \A k \in DOMAIN low.st.trace :
              low.st.trace[k].ev = "step" => low.st.trace[k].index = 1

(***************************************************************************)
(* Properties of Int.Int64.                                                 *)
(***************************************************************************)

\* C26: for every integer x, 0 and the negative ones included,
\* new(Int).SetBig(x).Int64() does not panic and returns x.
C26_SetBigInt64RoundTrip ==
    mp.op = "Int64" => ~mp.z.panic /\ mp.z.values = mp.host

\* C27: a second Int64 call returns what the first returned and leaves the
\* Int's value, as String, Cmp and Sign see it, as the first call left it.
C27_Int64Idempotent ==
    (mp.op = "Int64" /\ ~mp.z.panic) =>
        /\ ~mp.again.panic
        /\ mp.again.values = mp.z.values
        /\ BigSign(mp.again.values) = BigSign(mp.z.values)
        /\ IntCmp(mp.again, mp.z) = 0

(***************************************************************************)
(* Properties of Binary.Eval on strings.                                    *)
(***************************************************************************)

\* Binary.Eval was given two folded string constants.
TwoStrings ==
    /\ ev.node = "Binary"
    /\ ev.Left.ok /\ ev.Left.val.ConstValue.Kind = "string"
    /\ ev.Right.ok /\ ev.Right.val.ConstValue.Kind = "string"

\* Eval folded to the concatenation of the two strings.
Concatenated ==
    /\ ev.out.ok /\ ev.out.err = ""
    /\ ev.out.val.ConstValue =
          HostString(ev.Left.val.ConstValue.Elems \o ev.Right.val.ConstValue.Elems)

\* C29: on two string constants Binary.Eval folds to their concatenation for
\* the operator + and for no other operator.
C29_ConcatOnlyForAdd ==
    TwoStrings => (Concatenated <=> ev.Op = "BinaryAdd")

(***************************************************************************)
(* Properties of Assign.Eval.                                               *)
(***************************************************************************)

\* C28: when Assign.Eval returns an error or folded = false it has minted
\* no variable version, added no constant to the generator and changed no
\* binding of env.
C28_AssignAllOrNothing ==
    (ev.node = "Assign" /\ (ev.out.err # "" \/ ~ev.out.ok)) => ev.after = ev.before

(***************************************************************************)
(* Properties of Player.offlinePhase.                                       *)
(***************************************************************************)

\* C30: for every NumWires >= 1 the bound handed to rand.Int is positive and
\* is 2^NumWires - 1, its low NumWires bits set and no other, so choosing
\* lambda does not panic.
C30_LambdaBound ==
    (off.called /\ off.NumWires >= 1) =>
        /\ SignOf(off.bound) = 1
        /\ \A i \in 1..Int64Bits : off.bound[i] = 1 <=> i <= off.NumWires
        /\ off.lambda # "panic"

=============================================================================
